---- MODULE Spec2Model ----
(***************************************************************************)
(* Personal AG Usage: the discovery-and-tracking engine of UsageService    *)
(* (getConnection, getUsageData, trackUsage, getWeeklyUsage) and the       *)
(* refreshData cycle of the extension that drives it.                      *)
(*                                                                         *)
(* Quota fractions are fixed-point numbers in units of 1/10000, so that    *)
(* 1.0 is 10000, USAGE_DETECTION_MIN_THRESHOLD (0.0001) is 1 and           *)
(* USAGE_DETECTION_MAX_THRESHOLD (0.9) is 9000.  Times are milliseconds.   *)
(*                                                                         *)
(* One refresh cycle is a chain of awaits.  Each action below is one       *)
(* continuation of that chain: the code that runs, without yielding, from  *)
(* the completion of one awaited operation to the start of the next.       *)
(* makeRequest appears here by what it settles with once its retries are   *)
(* over.  A Memento write takes effect when it resolves and leaves the     *)
(* stored value alone when it rejects.                                     *)
(***************************************************************************)
EXTENDS Integers, Sequences, FiniteSets, TLC

\* ------------------------------------------------------------- constants

CACHE_TTL_MS == 300000
USAGE_HISTORY_WINDOW_MS == 604800000
USAGE_DETECTION_MIN_THRESHOLD == 1
USAGE_DETECTION_MAX_THRESHOLD == 9000
STORAGE_KEY_HISTORY == "usage_history_v1"
STORAGE_KEY_LAST_QUOTAS == "last_quotas_v1"

\* --------------------------------------------------------------- bounds

MaxInFlight == 2   \* refresh-cycle slots (cycles that may overlap)
MaxTicks == 2      \* clock advances in one behaviour
MaxPorts == 3      \* longest port list the scanner returns
MaxHistory == 2    \* longest history the tracked drops build up
MaxLines == 2      \* most lines in the output of a command
MaxPanels == 3     \* most dashboard panels created in one behaviour
MaxRefreshes == 6  \* most refreshData calls in one behaviour
MaxTimerTicks == 6 \* most firings of the auto-refresh timer in one behaviour

Cycles == 1..MaxInFlight

\* The remaining fraction of a full quota, and of a label never seen.
FULL == 10000
UNDEFINED == -1

Labels == {"A", "B"}
NoResetTime == "null"
SomeResetTime == "2026-01-20T00:00:00Z"

\* The messages the code throws.
ERR_NOT_FOUND == "Antigravity process not found."
ERR_NO_TOKEN == "Found Antigravity process(es) but NONE had a CSRF token in args."
ERR_SCAN == "Failed to find ports"
ERR_NO_PORTS == "No ports found"
ERR_ALL_PORTS == "Could not validate any port."
ERR_NO_USER_STATUS == "Invalid response: missing userStatus"
ERR_STORAGE == "storage.update rejected"
NoError == ""

\* What makeRequest rejects with, once its retries are over.
RequestFailures == {"HTTP 401", "Request timeout"}

\* ------------------------------------------------------ model scenarios
\* A scenario fixes the sets the environment's answers are drawn from, and
\* how many refresh cycles the caller lets run at once.  It is chosen by
\* the initial state and never changes.

\* Connection scenario: several ports and tokens, one tracked fraction.
ConnScope ==
    [ inflight  |-> 1,
      tokens    |-> {"tok-1", "tok-2"},
      portNums  |-> {42100, 42101, 42102},
      fracs     |-> {FULL},
      labels    |-> {"A"},
      maxModels |-> 1,
      steps     |-> {1, CACHE_TTL_MS - 1},
      remember  |-> FALSE,
      observe   |-> FALSE ]

\* Tracking scenario: one port and token, fractions at both thresholds.
TrackScope ==
    [ inflight  |-> 1,
      tokens    |-> {"tok-1"},
      portNums  |-> {42100},
      fracs     |-> {0, 1000, 9999, FULL},
      labels    |-> {"A"},
      maxModels |-> 1,
      steps     |-> {1, USAGE_HISTORY_WINDOW_MS - 1},
      remember  |-> FALSE,
      observe   |-> FALSE ]

\* Repeated-snapshot scenario: the previous trackUsage call is remembered.
IdemScope ==
    [ inflight  |-> 1,
      tokens    |-> {"tok-1"},
      portNums  |-> {42100},
      fracs     |-> {1000, 9999},
      labels    |-> {"A"},
      maxModels |-> 1,
      steps     |-> {1, USAGE_HISTORY_WINDOW_MS - 1},
      remember  |-> TRUE,
      observe   |-> FALSE ]

\* Several-resources scenario: two labels tracked in one cycle.
SumScope ==
    [ inflight  |-> 1,
      tokens    |-> {"tok-1"},
      portNums  |-> {42100},
      fracs     |-> {5000, FULL},
      labels    |-> {"A", "B"},
      maxModels |-> 2,
      steps     |-> {1},
      remember  |-> FALSE,
      observe   |-> FALSE ]

\* Port scenario: the scanner's output holds the numbers 0 and 70000,
\* which findListeningPorts parses and returns like any other.
PortScope ==
    [ inflight  |-> 1,
      tokens    |-> {"tok-1"},
      portNums  |-> {0, 42100, 70000},
      fracs     |-> {FULL},
      labels    |-> {"A"},
      maxModels |-> 1,
      steps     |-> {1},
      remember  |-> FALSE,
      observe   |-> FALSE ]

\* Alert scenario: two labels, percentages on both sides of the alert
\* thresholds (949 rounds to 9 %, 950 to 10 %).
AlertScope ==
    [ inflight  |-> 1,
      tokens    |-> {"tok-1"},
      portNums  |-> {42100},
      fracs     |-> {949, 950, 9500},
      labels    |-> {"A", "B"},
      maxModels |-> 2,
      steps     |-> {1},
      remember  |-> FALSE,
      observe   |-> FALSE ]

\* Overlap scenario: the triggers of refreshData are not held back while
\* a cycle is running (extension.ts has no guard), so cycles overlap.
OverlapScope ==
    [ inflight  |-> MaxInFlight,
      tokens    |-> {"tok-1"},
      portNums  |-> {42100},
      fracs     |-> {FULL},
      labels    |-> {"A"},
      maxModels |-> 1,
      steps     |-> {1},
      remember  |-> FALSE,
      observe   |-> FALSE ]

\* One resource whose fraction goes down and up, cycles one at a time,
\* with the fractions the responses carried kept for comparison.
CountScope ==
    [ inflight  |-> 1,
      tokens    |-> {"tok-1"},
      portNums  |-> {42100},
      fracs     |-> {5000, FULL},
      labels    |-> {"A"},
      maxModels |-> 1,
      steps     |-> {1},
      remember  |-> FALSE,
      observe   |-> TRUE ]

\* The target process up, its API on one of two listening ports.
HealScope ==
    [ inflight  |-> 1,
      tokens    |-> {"tok-1"},
      portNums  |-> {42100, 42101},
      fracs     |-> {FULL},
      labels    |-> {"A"},
      maxModels |-> 1,
      steps     |-> {60000},
      remember  |-> FALSE,
      observe   |-> FALSE ]

VARIABLES
    scope,             \* the scenario
    now,               \* Date.now()
    ticks,             \* clock advances so far
    cachedConnection,  \* UsageService.cachedConnection
    storage,           \* the Memento: key -> value
    \* per refresh cycle (the locals of one refreshData/getUsageData call)
    pc,                \* the await the cycle is suspended at
    csrfToken,         \* getConnection: token found by the locator
    ports,             \* getConnection: ports found by the scanner
    idx,               \* getConnection: position of the for-of loop in ports
    failedPorts,       \* getConnection: failedPorts
    conn,              \* getUsageData: conn
    models,            \* getUsageData: models
    history,           \* trackUsage: history (the value to be saved)
    lastQuotas,        \* trackUsage: lastQuotas (the value to be saved)
    totalDelta,        \* trackUsage: totalDelta
    trackNow,          \* trackUsage: now
    weeklyUsage,       \* getUsageData: weeklyUsage
    error,             \* the error the cycle threw, or trackUsage threw
    \* observation of what the cycle did
    fromCache,         \* getConnection returned the cached entry
    discovery,         \* operations issued: process listings, scans, probes
    probed,            \* ports probed by this getConnection call, in order
    rejections,        \* what the failed probes rejected with, in order
    inFlight,          \* validation probes awaiting their answer
    before,            \* the storage as trackUsage read it
    \* observation of the service
    lastProbeOk,       \* <<port, token>> of the last probe that succeeded
    cacheBroken,       \* the last status query on the cached entry failed
    lastTrack,         \* the previous trackUsage call, if it completed
    observed,          \* per finite resource: the fraction last answered, and the sum of its falls
    \* one top-level makeRequest call
    maxRetries,        \* makeRequest: maxRetries (network.retryAttempts)
    retryDelay,        \* makeRequest: retryDelay (network.retryDelay)
    flight,            \* attempts awaiting their response, by attemptNumber
    destroyed,         \* attempts destroyed by their timeout handler, by attemptNumber
    timers,            \* pending retry timers, by the attemptNumber they will issue
    issued,            \* https.request calls so far
    outcome,           \* how the promise of the top-level call has settled
    lastEvent,         \* observation: the handler that ran last
    \* one findAntigravityProcess call
    platform,          \* os.platform()
    psOut,             \* what the process listing command settles with
    located,           \* what findAntigravityProcess settles with
    \* one findListeningPorts call
    lsofOut,           \* what the lsof command settles with
    netstatOut,        \* what the netstat command settles with
    scanPc,            \* the await the call is suspended at
    ran,               \* the commands the call has run, in order
    scanned,           \* what findListeningPorts settles with
    \* the dashboard
    currentPanel,      \* DashboardPanel.currentPanel
    panels,            \* every DashboardPanel constructed so far
    created,           \* createWebviewPanel calls so far
    lastCall,          \* observation: what the last call did
    \* the refresh loop of the extension
    consecutiveErrors, \* extension: consecutiveErrors
    alertQuotas,       \* extension: the lastQuotas map, label -> percentage
    awaiting,          \* refreshData calls awaiting getUsageData
    refreshes,         \* refreshData calls so far
    retryOffers,       \* error notifications whose Retry button is still offered
    log,               \* observation: how the refreshes ended, and the resets, in order
    shown              \* observation: what the last refresh that ended displayed

globals == <<scope, now, ticks, cachedConnection, storage>>
connLocals == <<csrfToken, ports, idx, failedPorts, conn>>
trackLocals == <<models, history, lastQuotas, totalDelta, trackNow>>
connObs == <<fromCache, discovery, probed, rejections, inFlight>>
serviceObs == <<lastProbeOk, cacheBroken, lastTrack, observed>>
coreVars == <<globals, pc, connLocals, trackLocals, weeklyUsage, error,
              connObs, before, serviceObs>>
requestVars == <<maxRetries, retryDelay, flight, destroyed, timers, issued, outcome, lastEvent>>
locateVars == <<platform, psOut, located>>
scanVars == <<lsofOut, netstatOut, scanPc, ran, scanned>>
panelVars == <<currentPanel, panels, created, lastCall>>
refreshVars == <<consecutiveErrors, alertQuotas, awaiting, refreshes, retryOffers, log, shown>>
others == <<requestVars, locateVars, scanVars, panelVars, refreshVars>>
vars == <<coreVars, others>>

\* -------------------------------------------------------------- values

NoConnection == [port |-> -1, csrfToken |-> "", timestamp |-> -1]
NoQuotas == [l \in Labels |-> UNDEFINED]
NoStorage == [k \in {STORAGE_KEY_HISTORY, STORAGE_KEY_LAST_QUOTAS} |->
                IF k = STORAGE_KEY_HISTORY THEN <<>> ELSE NoQuotas]
NoDiscovery == [listings |-> 0, scans |-> 0, probes |-> 0]
NoProbe == <<-1, "">>
NoTrack == [called |-> FALSE, models |-> <<>>, total |-> 0, history |-> <<>>]
NoObserved == [last |-> [l \in Labels |-> UNDEFINED], decreased |-> [l \in Labels |-> 0]]

RECURSIVE SumDelta(_)
SumDelta(h) == IF h = <<>> THEN 0 ELSE Head(h).delta + SumDelta(Tail(h))

RECURSIVE SeqsUpTo(_, _)
SeqsUpTo(S, n) ==
    IF n = 0 THEN {<<>>}
    ELSE LET shorter == SeqsUpTo(S, n - 1)
         IN shorter \cup {Append(s, x) : s \in {t \in shorter : Len(t) = n - 1}, x \in S}

Range(s) == {s[i] : i \in 1..Len(s)}

\* ------------------------------------------------- what the world answers

\* findAntigravityProcess: a handle, or one of its two errors.
LocateResults ==
    {[ok |-> TRUE, csrfToken |-> t, error |-> NoError] : t \in scope.tokens}
    \cup {[ok |-> FALSE, csrfToken |-> "", error |-> e] : e \in {ERR_NOT_FOUND, ERR_NO_TOKEN}}

\* findListeningPorts: a list of ports (possibly empty), or its error.
ScanResults ==
    {[ok |-> TRUE, ports |-> p, error |-> NoError] : p \in SeqsUpTo(scope.portNums, MaxPorts)}
    \cup {[ok |-> FALSE, ports |-> <<>>, error |-> ERR_SCAN]}

QuotaGroups ==
    [label : scope.labels, rawQuota : scope.fracs, resetTime : {NoResetTime, SomeResetTime}]

\* The clientModelConfigs of one response, one entry per label.
ModelLists ==
    {m \in SeqsUpTo(QuotaGroups, scope.maxModels) :
        \A i, j \in 1..Len(m) : i # j => m[i].label # m[j].label}

\* ----------------------------------------------------------- trackUsage

\* A drop counted when it is at or between the thresholds.
AcceptDropInclusive(diff) ==
    diff >= USAGE_DETECTION_MIN_THRESHOLD /\ diff <= USAGE_DETECTION_MAX_THRESHOLD

\* Line 775: the drop is counted when strictly between the thresholds.
AcceptDrop(diff) ==
    diff > USAGE_DETECTION_MIN_THRESHOLD /\ diff < USAGE_DETECTION_MAX_THRESHOLD

\* A change counted whichever way it goes.
DropOfAnyChange(last, current) ==
    IF last = UNDEFINED THEN 0
    ELSE IF current < last THEN last - current ELSE current - last

\* Lines 768-778: what one finite model adds to totalDelta.
DropOf(last, current) ==
    IF last # UNDEFINED /\ current < last /\ AcceptDrop(last - current)
    THEN last - current
    ELSE 0

\* The loop with the baseline replaced only where a drop was counted or
\* none was stored.
RECURSIVE TrackLoopBaselineOnDrop(_, _, _)
TrackLoopBaselineOnDrop(ms, lq, total) ==
    IF ms = <<>> THEN [lastQuotas |-> lq, totalDelta |-> total]
    ELSE LET m == Head(ms)
             current == m.rawQuota
             last == lq[m.label]
         IN IF m.resetTime = NoResetTime
            THEN TrackLoopBaselineOnDrop(Tail(ms), lq, total)
            ELSE TrackLoopBaselineOnDrop(Tail(ms),
                    IF last = UNDEFINED \/ DropOf(last, current) > 0
                    THEN [lq EXCEPT ![m.label] = current] ELSE lq,
                    total + DropOf(last, current))

\* The loop with the total assigned instead of added to.
RECURSIVE TrackLoopLastDrop(_, _, _)
TrackLoopLastDrop(ms, lq, total) ==
    IF ms = <<>> THEN [lastQuotas |-> lq, totalDelta |-> total]
    ELSE LET m == Head(ms)
             current == m.rawQuota
             last == lq[m.label]
         IN IF m.resetTime = NoResetTime
            THEN TrackLoopLastDrop(Tail(ms), lq, total)
            ELSE TrackLoopLastDrop(Tail(ms),
                    [lq EXCEPT ![m.label] = current],
                    IF DropOf(last, current) > 0 THEN DropOf(last, current) ELSE total)

\* The loop without the test of resetTime.
RECURSIVE TrackLoopUnbounded(_, _, _)
TrackLoopUnbounded(ms, lq, total) ==
    IF ms = <<>> THEN [lastQuotas |-> lq, totalDelta |-> total]
    ELSE LET m == Head(ms)
             current == m.rawQuota
             last == lq[m.label]
         IN TrackLoopUnbounded(Tail(ms),
                    [lq EXCEPT ![m.label] = current],
                    total + DropOf(last, current))

\* The for-of loop over models (lines 762-782): lastQuotas and totalDelta
\* after the loop, given their values before it.
RECURSIVE TrackLoop(_, _, _)
TrackLoop(ms, lq, total) ==
    IF ms = <<>> THEN [lastQuotas |-> lq, totalDelta |-> total]
    ELSE LET m == Head(ms)
             current == m.rawQuota
             last == lq[m.label]
         IN IF m.resetTime = NoResetTime
            THEN TrackLoop(Tail(ms), lq, total)
            ELSE TrackLoop(Tail(ms),
                           [lq EXCEPT ![m.label] = current],
                           total + DropOf(last, current))

\* An entry pushed whatever the total is.
RecordDropAlways(h, t, total) == Append(h, [ts |-> t, delta |-> total])

\* Lines 785-787: one entry for the cycle when something dropped.
RecordDrop(h, t, total) ==
    IF total > 0 THEN Append(h, [ts |-> t, delta |-> total]) ELSE h

\* Entries kept up to and including the window age.
PruneHistoryInclusive(h, t) ==
    SelectSeq(h, LAMBDA e : (t - e.ts) <= USAGE_HISTORY_WINDOW_MS)

\* Line 790: keep the entries younger than the window.
PruneHistory(h, t) ==
    SelectSeq(h, LAMBDA e : (t - e.ts) < USAGE_HISTORY_WINDOW_MS)

\* The number of stored entries instead of their sum.
GetWeeklyUsageCount == Len(storage[STORAGE_KEY_HISTORY])

\* getWeeklyUsage (lines 797-800): the sum of the stored history.
GetWeeklyUsage == SumDelta(storage[STORAGE_KEY_HISTORY])

\* Memento.update(key, value), when it resolves.
StorageUpdate(st, key, value) == [st EXCEPT ![key] = value]

\* ----------------------------------------------------------- makeRequest
\* One top-level makeRequest call and the attempts it leads to.  Every
\* attempt is one https.request (line 535); a retry is a timer that calls
\* makeRequest again with attemptNumber + 1 and hands its result to the
\* resolve and reject of the attempt that set it, so that the promise of
\* the top-level call settles with whatever settles first.

MAX_RETRY_ATTEMPTS == 3
RETRY_DELAY_MS == 150
HTTP_SUCCESS_MIN == 200
HTTP_SUCCESS_MAX == 299

\* The attempt numbers: up to one more than the default allows.
Attempts == 1..(MAX_RETRY_ATTEMPTS + 1)

\* The values of network.retryAttempts, the default among them.
RetryConfigs == Attempts

\* The values of network.retryDelay: the default, and one second.
RetryDelays == {RETRY_DELAY_MS, 1000}

\* The status codes an attempt is answered with, and the bodies.
Statuses == {200, 299, 300, 401, 499, 500, 503}
Bodies == {"json", "garbage"}

ERR_TIMEOUT == "Request timeout"
ERR_PARSE == "Failed to parse response"
ERR_SOCKET == "connect ECONNREFUSED"
ERR_HANG_UP == "socket hang up"
RESOLVED == "resolved"
PENDING == "pending"
NOT_CALLED == "not called"

HttpError(status) == "HTTP " \o ToString(status)

NoEvent == [kind |-> "none", attempt |-> 0, status |-> 0, scheduled |-> 0,
            followUps |-> 0, first |-> FALSE, delay |-> 0]

\* A retry for every status that is not a success.
RetryStatusAny(status, attemptNumber, max) == attemptNumber < max

\* Line 555: a 5xx status is retried while attempts are left.
RetryStatus(status, attemptNumber, max) ==
    status >= 500 /\ attemptNumber < max

\* Lines 577 and 594: an error or a timeout is retried while attempts are left.
RetryFailure(attemptNumber, max) == attemptNumber < max

\* The same delay before every retry.
BackoffDelayConstant(base, attemptNumber) == base

\* Lines 561, 583 and 600: retryDelay * attemptNumber.
BackoffDelay(base, attemptNumber) == base * attemptNumber

\* resolve or reject on a promise: only the first one settles it.
Settle(o, result) == IF o = PENDING THEN result ELSE o

\* setTimeout(() => makeRequest(..., attemptNumber + 1), ...).
Schedule(tm, attemptNumber) == [tm EXCEPT ![attemptNumber + 1] = @ + 1]

RequestOff ==
    /\ maxRetries = MAX_RETRY_ATTEMPTS
    /\ retryDelay = RETRY_DELAY_MS
    /\ flight = [a \in Attempts |-> 0]
    /\ destroyed = [a \in Attempts |-> 0]
    /\ timers = [a \in Attempts |-> 0]
    /\ issued = 0
    /\ outcome = NOT_CALLED
    /\ lastEvent = NoEvent

\* ------------------------------------------------ findAntigravityProcess
\* A line of the process listing, by what the code looks at: whether it is
\* blank, the number it starts with, whether it contains the application
\* identifier, and what follows the token flag in it.

Platforms == {"win32", "linux"}

NoPid == 0
SomePid == 4242
OtherPid == 5151
Pids == {SomePid, OtherPid}
SomeToken == "tok-1"

\* The token flag in a line: absent; present with nothing the patterns of
\* extractCsrfToken match; present with a quoted value of blanks; present
\* with a value.
FlagKinds == {"none", "bare", "blank", "value"}

BlankLine == [blank |-> TRUE, pid |-> NoPid, ident |-> FALSE, flag |-> "none"]

TextLines == [blank : {FALSE}, pid : {NoPid} \cup Pids, ident : BOOLEAN, flag : FlagKinds]

\* Lines 416-419: the line contains 'antigravity' or '--csrf_token'.
IsCandidate(line) == line.ident \/ line.flag # "none"

\* ps lists every process; the PowerShell query (line 392) lists the
\* processes whose command line matches, one per line.
PsLines == TextLines \cup {BlankLine}
PowerShellLines == {l \in TextLines : IsCandidate(l)} \cup {BlankLine}

ERR_COMMAND == "Exited with 1"

CommandFailed == [ok |-> FALSE, lines |-> <<>>]

\* What the call settles with; examined counts the candidates its loop
\* has looked at.
NoLocate == [status |-> "none", pid |-> NoPid, csrfToken |-> "", error |-> NoError,
             examined |-> 0]

LocateError(e) == [status |-> "error", pid |-> NoPid, csrfToken |-> "", error |-> e,
                   examined |-> 0]

\* extractCsrfToken (lines 505-516): the value of the first pattern that
\* matches, trimmed; it throws when no pattern matches.
ExtractCsrfToken(line) ==
    CASE line.flag = "value" -> [threw |-> FALSE, token |-> SomeToken]
      [] line.flag = "blank" -> [threw |-> FALSE, token |-> ""]
      [] OTHER -> [threw |-> TRUE, token |-> ""]

\* line.trim().match(/^(\d+)/), lines 401 and 427.
PidMatch(line) == line.pid # NoPid

\* A candidate accepted for its token alone.
YieldsHandleTokenOnly(line) ==
    LET x == ExtractCsrfToken(line) IN ~x.threw /\ x.token # ""

\* Lines 400-404 and 426-430: the candidate has a pid and a token.
YieldsHandle(line) ==
    LET x == ExtractCsrfToken(line) IN ~x.threw /\ PidMatch(line) /\ x.token # ""

\* A loop that goes through every candidate and keeps the last handle.
RECURSIVE LastHandle(_)
LastHandle(candidates) ==
    IF candidates = <<>> THEN LocateError(ERR_NO_TOKEN)
    ELSE LET rest == LastHandle(Tail(candidates))
         IN IF rest.status = "handle" \/ ~YieldsHandle(Head(candidates))
            THEN [rest EXCEPT !.examined = @ + 1]
            ELSE [status |-> "handle", pid |-> Head(candidates).pid,
                  csrfToken |-> ExtractCsrfToken(Head(candidates)).token,
                  error |-> NoError, examined |-> Len(candidates)]

\* The loops at lines 398-409 and 424-436.
RECURSIVE FirstHandle(_)
FirstHandle(candidates) ==
    IF candidates = <<>> THEN LocateError(ERR_NO_TOKEN)
    ELSE IF YieldsHandle(Head(candidates))
    THEN [status |-> "handle", pid |-> Head(candidates).pid,
          csrfToken |-> ExtractCsrfToken(Head(candidates)).token, error |-> NoError,
          examined |-> 1]
    ELSE [FirstHandle(Tail(candidates)) EXCEPT !.examined = @ + 1]

\* findAntigravityProcess (lines 384-438).
FindAntigravityProcess(plat, out) ==
    IF ~out.ok THEN LocateError(ERR_COMMAND)
    ELSE LET candidates ==
                 IF plat = "win32"
                 THEN SelectSeq(out.lines, LAMBDA l : ~l.blank)
                 ELSE SelectSeq(out.lines, IsCandidate)
         IN IF candidates = <<>> THEN LocateError(ERR_NOT_FOUND)
            ELSE FirstHandle(candidates)

LocateOff ==
    /\ platform = "linux"
    /\ psOut = CommandFailed
    /\ located = NoLocate

\* ---------------------------------------------------- findListeningPorts
\* A line of a command's output, by what the code looks at in it.

NoPort == 0
ScanPorts == {42100, 42101}

\* lsof: the port /:(\d+)\s+\(LISTEN\)/ finds in the line, if any.
LsofLines == [port : ScanPorts \cup {NoPort}]

\* netstat -tlnp: whether the line names the pid, and the port /:(\d+)\s/
\* finds in it, if any.
NetstatLines == [owner : BOOLEAN, port : ScanPorts \cup {NoPort}]

\* netstat -ano: whether the line says LISTENING, whether its last column
\* is the pid, and the port at the end of its second column, if any.
WinNetstatLines ==
    [listening : BOOLEAN, owner : BOOLEAN, port : ScanPorts \cup {NoPort}]

NoScan == [status |-> "none", ports |-> <<>>, error |-> NoError]
ScanOk(ps) == [status |-> "ok", ports |-> ps, error |-> NoError]
ScanError == [status |-> "error", ports |-> <<>>, error |-> ERR_SCAN]

\* The ports of the lines, in line order.
PortsOf(lines) == [i \in 1..Len(lines) |-> lines[i].port]

\* [...new Set(ports)]: the first occurrence of every port, in order.
RECURSIVE Dedup(_)
Dedup(ps) ==
    IF ps = <<>> THEN <<>>
    ELSE LET front == Dedup(SubSeq(ps, 1, Len(ps) - 1))
             last == ps[Len(ps)]
         IN IF last \in Range(front) THEN front ELSE Append(front, last)

\* Lines 476-482: the lsof branch.
LsofPorts(lines) ==
    Dedup(PortsOf(SelectSeq(lines, LAMBDA l : l.port # NoPort)))

\* Lines 487-495: the netstat fallback returns the array it filled.
NetstatPorts(lines) ==
    PortsOf(SelectSeq(lines, LAMBDA l : l.owner /\ l.port # NoPort))

\* Lines 447-467: the Windows branch.
WinNetstatPorts(lines) ==
    Dedup(PortsOf(SelectSeq(lines, LAMBDA l : l.listening /\ l.owner /\ l.port # NoPort)))

\* A fallback also when lsof ran and listed no port.
NeedsFallbackOrEmpty(out) == ~out.ok \/ LsofPorts(out.lines) = <<>>

\* Lines 474-483: the catch is entered when the lsof command rejected.
NeedsFallback(out) == ~out.ok

ScanOff ==
    /\ lsofOut = CommandFailed
    /\ netstatOut = CommandFailed
    /\ scanPc = "start"
    /\ ran = <<>>
    /\ scanned = NoScan

\* -------------------------------------------------------- DashboardPanel

PanelIds == 1..MaxPanels

\* DashboardPanel.currentPanel === undefined
NoPanel == 0

\* vscode.window.activeTextEditor?.viewColumn: undefined, or a column.
NoColumn == 0
ViewColumnOne == 1
ViewColumns == {NoColumn, ViewColumnOne, 2}

NotCreated == [state |-> "none", column |-> NoColumn, visible |-> FALSE, html |-> ""]

\* A panel looked for under no circumstances.
HasPanelNever(cp) == FALSE

\* Line 68: if (DashboardPanel.currentPanel).
HasPanel(cp) == cp # NoPanel

PanelOff ==
    /\ currentPanel = NoPanel
    /\ panels = [p \in PanelIds |-> NotCreated]
    /\ created = 0
    /\ lastCall = "none"

\* ----------------------------------------------------------- refreshData
\* The refresh loop of the extension: refreshData is started by the
\* activation, the timer and the commands, awaits getUsageData, and then
\* either renders the data (raising the quota alerts) or counts a failure.

MAX_CONSECUTIVE_ERRORS == 5
QUOTA_CRITICAL_THRESHOLD == 10
QUOTA_RESET_HIGH_THRESHOLD == 90
QUOTA_RESET_LOW_THRESHOLD == 50
QUOTA_PERCENTAGE_MULTIPLIER == 100

\* Math.round(m.rawQuota * QUOTA_PERCENTAGE_MULTIPLIER): halves round up.
Percent(frac) == (2 * frac * QUOTA_PERCENTAGE_MULTIPLIER + FULL) \div (2 * FULL)

\* a.label.localeCompare(b.label) < 0
LabelBefore(a, b) == a = "A" /\ b = "B"

RECURSIVE InsertByLabel(_, _)
InsertByLabel(sorted, m) ==
    IF sorted = <<>> THEN <<m>>
    ELSE IF LabelBefore(m.label, Head(sorted).label) THEN <<m>> \o sorted
    ELSE <<Head(sorted)>> \o InsertByLabel(Tail(sorted), m)

\* data.models.sort(...), a stable sort by label.
RECURSIVE SortByLabel(_)
SortByLabel(ms) ==
    IF ms = <<>> THEN <<>>
    ELSE InsertByLabel(SortByLabel(SubSeq(ms, 1, Len(ms) - 1)), ms[Len(ms)])

\* The reset notice of the alert system.
IsReset(prevQ, q) ==
    /\ prevQ # UNDEFINED
    /\ prevQ < QUOTA_RESET_LOW_THRESHOLD
    /\ q > QUOTA_RESET_HIGH_THRESHOLD

\* A warning whenever the percentage is below the threshold.
IsCriticalDropWhileLow(prevQ, q) ==
    /\ prevQ # UNDEFINED
    /\ q < QUOTA_CRITICAL_THRESHOLD

\* The low-quota warning of the alert system.
IsCriticalDrop(prevQ, q) ==
    /\ prevQ # UNDEFINED
    /\ prevQ >= QUOTA_CRITICAL_THRESHOLD
    /\ q < QUOTA_CRITICAL_THRESHOLD

\* models.forEach: what is displayed for each model, in order, and the
\* map afterwards.
RECURSIVE AlertLoop(_, _, _)
AlertLoop(ms, quotas, entries) ==
    IF ms = <<>> THEN [quotas |-> quotas, entries |-> entries]
    ELSE LET m == Head(ms)
             q == Percent(m.rawQuota)
             prevQ == quotas[m.label]
         IN AlertLoop(Tail(ms), [quotas EXCEPT ![m.label] = q],
                      Append(entries, [label |-> m.label, q |-> q, prevQ |-> prevQ,
                                       reset |-> IsReset(prevQ, q),
                                       low |-> IsCriticalDrop(prevQ, q)]))

\* The error notification only at the limit itself.
ShouldNotifyAtLimit(n) == n = MAX_CONSECUTIVE_ERRORS

\* if (consecutiveErrors >= MAX_CONSECUTIVE_ERRORS)
ShouldNotify(n) == n >= MAX_CONSECUTIVE_ERRORS

NothingShown == [entries |-> <<>>, error |-> FALSE]

RefreshOff ==
    /\ consecutiveErrors = 0
    /\ alertQuotas = NoQuotas
    /\ awaiting = 0
    /\ refreshes = 0
    /\ retryOffers = 0
    /\ log = <<>>
    /\ shown = NothingShown

\* ------------------------------------------------------------ the state

InitState ==
    /\ now = 0
    /\ ticks = 0
    /\ cachedConnection = NoConnection
    /\ storage = NoStorage
    /\ pc = [c \in Cycles |-> "idle"]
    /\ csrfToken = [c \in Cycles |-> ""]
    /\ ports = [c \in Cycles |-> <<>>]
    /\ idx = [c \in Cycles |-> 0]
    /\ failedPorts = [c \in Cycles |-> <<>>]
    /\ conn = [c \in Cycles |-> NoConnection]
    /\ models = [c \in Cycles |-> <<>>]
    /\ history = [c \in Cycles |-> <<>>]
    /\ lastQuotas = [c \in Cycles |-> NoQuotas]
    /\ totalDelta = [c \in Cycles |-> 0]
    /\ trackNow = [c \in Cycles |-> 0]
    /\ weeklyUsage = [c \in Cycles |-> 0]
    /\ error = [c \in Cycles |-> NoError]
    /\ fromCache = [c \in Cycles |-> FALSE]
    /\ discovery = [c \in Cycles |-> NoDiscovery]
    /\ probed = [c \in Cycles |-> <<>>]
    /\ rejections = [c \in Cycles |-> <<>>]
    /\ inFlight = [c \in Cycles |-> 0]
    /\ before = [c \in Cycles |-> NoStorage]
    /\ lastProbeOk = NoProbe
    /\ cacheBroken = FALSE
    /\ lastTrack = NoTrack
    /\ observed = NoObserved

\* The parts of the program a scenario leaves out stay as constructed.
OthersOff == RequestOff /\ LocateOff /\ ScanOff /\ PanelOff /\ RefreshOff

Init == InitState /\ OthersOff /\ scope = ConnScope

InitTrack == InitState /\ OthersOff /\ scope = TrackScope

InitIdem == InitState /\ OthersOff /\ scope = IdemScope

InitOverlap == InitState /\ OthersOff /\ scope = OverlapScope

InitSum == InitState /\ OthersOff /\ scope = SumScope

InitPorts == InitState /\ OthersOff /\ scope = PortScope

InitCount == InitState /\ OthersOff /\ scope = CountScope

\* The clock moves on.
Tick ==
    /\ ticks < MaxTicks
    /\ \E d \in scope.steps : now' = now + d
    /\ ticks' = ticks + 1
    /\ UNCHANGED <<others, scope, cachedConnection, storage, pc, connLocals, trackLocals,
                   weeklyUsage, error, connObs, before, serviceObs>>

\* ------------------------------------------------------- getConnection

\* A cached entry used only once it is older than the TTL.
CacheFreshReversed(cc, t) ==
    cc # NoConnection /\ t - cc.timestamp > CACHE_TTL_MS

\* A cached entry still used at exactly the TTL.
CacheFreshInclusive(cc, t) ==
    cc # NoConnection /\ t - cc.timestamp <= CACHE_TTL_MS

MIN_PORT == 1
MAX_PORT == 65535

\* validatePort (line 382), for the integers parseInt returns.
ValidatePort(port) == port >= MIN_PORT /\ port <= MAX_PORT

\* A TCP connection can only be made to a port in 1..65535: https.request
\* throws on a larger number, and nothing listens on port 0.
Connectable(port) == port >= 1 /\ port <= 65535

\* A cached entry used whatever its age.
CacheFreshForever(cc, t) == cc # NoConnection

\* Line 631: the cached entry is used while younger than the TTL.
CacheFresh(cc, t) ==
    cc # NoConnection /\ t - cc.timestamp < CACHE_TTL_MS

\* The first port of the list, whichever port the loop is at.
ValidatedPortFirst(ps, i) == ps[1]

\* Lines 645-651: the port the loop is at, which is the port just probed.
ValidatedPort(ps, i) == ps[i]

\* Only the latest failure kept.
NoteFailureLast(fp, port, e) == <<[port |-> port, error |-> e]>>

\* Lines 655-656: failedPorts.push({ port, error: errorMsg }).
NoteFailure(fp, port, e) == Append(fp, [port |-> port, error |-> e])

\* The cycle throws e: getUsageData rejects, refreshData's catch is next.
Throw(c, e) ==
    /\ pc' = [pc EXCEPT ![c] = "thrown"]
    /\ error' = [error EXCEPT ![c] = e]

\* A timer tick or a command calls refreshData (extension.ts 45-48), which
\* calls getUsageData, which calls getConnection (lines 629-637): on a
\* fresh cached entry the status query is sent on it, otherwise the process
\* listing starts.  The caller starts a cycle while fewer than
\* scope.inflight are running, in the lowest free slot.
StartRefresh(c) ==
    /\ pc[c] = "idle"
    /\ Cardinality({d \in Cycles : pc[d] # "idle"}) < scope.inflight
    /\ \A d \in Cycles : d < c => pc[d] # "idle"
    /\ IF CacheFresh(cachedConnection, now)
       THEN /\ conn' = [conn EXCEPT ![c] = cachedConnection]
            /\ fromCache' = [fromCache EXCEPT ![c] = TRUE]
            /\ pc' = [pc EXCEPT ![c] = "query"]
            /\ UNCHANGED discovery
       ELSE /\ pc' = [pc EXCEPT ![c] = "locate"]
            /\ discovery' = [discovery EXCEPT ![c].listings = @ + 1]
            /\ UNCHANGED <<conn, fromCache>>
    /\ UNCHANGED <<others, globals, csrfToken, ports, idx, failedPorts, trackLocals,
                   weeklyUsage, error, probed, rejections, inFlight, before,
                   serviceObs>>

\* findAntigravityProcess settles (line 637); on a handle the port scan
\* starts (line 638).
LocateDone(c) ==
    /\ pc[c] = "locate"
    /\ \E r \in LocateResults :
        IF r.ok
        THEN /\ csrfToken' = [csrfToken EXCEPT ![c] = r.csrfToken]
             /\ pc' = [pc EXCEPT ![c] = "scan"]
             /\ discovery' = [discovery EXCEPT ![c].scans = @ + 1]
             /\ UNCHANGED error
        ELSE /\ Throw(c, r.error)
             /\ UNCHANGED <<csrfToken, discovery>>
    /\ UNCHANGED <<others, globals, ports, idx, failedPorts, conn, trackLocals, weeklyUsage,
                   fromCache, probed, rejections, inFlight, before, serviceObs>>

\* The scan result handed to the loop without the test of its length: on
\* an empty list the loop does nothing and the aggregate error is thrown.
ScanDoneNoCheck(c) ==
    /\ pc[c] = "scan"
    /\ \E r \in ScanResults :
        IF ~r.ok
        THEN /\ Throw(c, r.error)
             /\ UNCHANGED <<ports, idx, failedPorts, probed, inFlight, discovery>>
        ELSE IF Len(r.ports) = 0
        THEN /\ Throw(c, ERR_ALL_PORTS)
             /\ UNCHANGED <<ports, idx, failedPorts, probed, inFlight, discovery>>
        ELSE /\ ports' = [ports EXCEPT ![c] = r.ports]
             /\ failedPorts' = [failedPorts EXCEPT ![c] = <<>>]
             /\ idx' = [idx EXCEPT ![c] = 1]
             /\ probed' = [probed EXCEPT ![c] = <<r.ports[1]>>]
             /\ inFlight' = [inFlight EXCEPT ![c] = @ + 1]
             /\ discovery' = [discovery EXCEPT ![c].probes = @ + 1]
             /\ pc' = [pc EXCEPT ![c] = "probe"]
             /\ UNCHANGED error
    /\ UNCHANGED <<others, globals, csrfToken, conn, trackLocals, weeklyUsage, fromCache,
                   rejections, before, serviceObs>>

\* findListeningPorts settles (lines 638-648): no ports is an error,
\* otherwise the loop starts and the first port is probed.
ScanDone(c) ==
    /\ pc[c] = "scan"
    /\ \E r \in ScanResults :
        IF ~r.ok
        THEN /\ Throw(c, r.error)
             /\ UNCHANGED <<ports, idx, failedPorts, probed, inFlight, discovery>>
        ELSE IF Len(r.ports) = 0
        THEN /\ Throw(c, ERR_NO_PORTS)
             /\ UNCHANGED <<ports, idx, failedPorts, probed, inFlight, discovery>>
        ELSE /\ ports' = [ports EXCEPT ![c] = r.ports]
             /\ failedPorts' = [failedPorts EXCEPT ![c] = <<>>]
             /\ idx' = [idx EXCEPT ![c] = 1]
             /\ probed' = [probed EXCEPT ![c] = <<r.ports[1]>>]
             /\ inFlight' = [inFlight EXCEPT ![c] = @ + 1]
             /\ discovery' = [discovery EXCEPT ![c].probes = @ + 1]
             /\ pc' = [pc EXCEPT ![c] = "probe"]
             /\ UNCHANGED error
    /\ UNCHANGED <<others, globals, csrfToken, conn, trackLocals, weeklyUsage, fromCache,
                   rejections, before, serviceObs>>

\* A loop that caches the port and goes on to the next one.
ProbeSucceededKeepGoing(c) ==
    LET connection == [port |-> ValidatedPort(ports[c], idx[c]),
                       csrfToken |-> csrfToken[c], timestamp |-> now]
        more == idx[c] < Len(ports[c])
    IN /\ pc[c] = "probe"
       /\ Connectable(ports[c][idx[c]])
       /\ lastProbeOk' = <<ports[c][idx[c]], csrfToken[c]>>
       /\ cachedConnection' = connection
       /\ conn' = [conn EXCEPT ![c] = connection]
       /\ cacheBroken' = FALSE
       /\ idx' = [idx EXCEPT ![c] = IF more THEN @ + 1 ELSE @]
       /\ probed' = [probed EXCEPT ![c] = IF more THEN Append(@, ports[c][idx[c] + 1]) ELSE @]
       /\ inFlight' = [inFlight EXCEPT ![c] = IF more THEN @ ELSE @ - 1]
       /\ discovery' = [discovery EXCEPT ![c].probes = IF more THEN @ + 1 ELSE @]
       /\ pc' = [pc EXCEPT ![c] = IF more THEN "probe" ELSE "query"]
       /\ UNCHANGED <<others, scope, now, ticks, storage, csrfToken, ports, failedPorts,
                      trackLocals, weeklyUsage, error, fromCache, rejections,
                      before, lastTrack, observed>>

\* The probe of the current port resolves (lines 648-653): the port is
\* cached and returned, and getUsageData sends the status query on it
\* (line 676).
ProbeSucceeded(c) ==
    LET connection == [port |-> ValidatedPort(ports[c], idx[c]),
                       csrfToken |-> csrfToken[c], timestamp |-> now]
    IN /\ pc[c] = "probe"
       /\ Connectable(ports[c][idx[c]])
       /\ inFlight' = [inFlight EXCEPT ![c] = @ - 1]
       /\ lastProbeOk' = <<ports[c][idx[c]], csrfToken[c]>>
       /\ cachedConnection' = connection
       /\ conn' = [conn EXCEPT ![c] = connection]
       /\ cacheBroken' = FALSE
       /\ pc' = [pc EXCEPT ![c] = "query"]
       /\ UNCHANGED <<others, scope, now, ticks, storage, csrfToken, ports, idx, failedPorts,
                      trackLocals, weeklyUsage, error, fromCache, discovery, probed,
                      rejections, before, lastTrack, observed>>

\* A loop that drops the cached entry when every port has failed.
ProbeFailedClearing(c) ==
    /\ pc[c] = "probe"
    /\ \E e \in RequestFailures :
        /\ rejections' = [rejections EXCEPT ![c] = Append(@, e)]
        /\ failedPorts' = [failedPorts EXCEPT ![c] = NoteFailure(@, ports[c][idx[c]], e)]
    /\ IF idx[c] < Len(ports[c])
       THEN /\ idx' = [idx EXCEPT ![c] = @ + 1]
            /\ probed' = [probed EXCEPT ![c] = Append(@, ports[c][idx[c] + 1])]
            /\ discovery' = [discovery EXCEPT ![c].probes = @ + 1]
            /\ UNCHANGED <<pc, error, inFlight, cachedConnection>>
       ELSE /\ inFlight' = [inFlight EXCEPT ![c] = @ - 1]
            /\ Throw(c, ERR_ALL_PORTS)
            /\ cachedConnection' = NoConnection
            /\ UNCHANGED <<idx, probed, discovery>>
    /\ UNCHANGED <<others, scope, now, ticks, storage, csrfToken, ports, conn, trackLocals,
                   weeklyUsage, fromCache, before, serviceObs>>

\* The probe of the current port rejects (lines 654-665): the failure is
\* noted and the next port is probed; after the last port the aggregate
\* error is thrown.
ProbeFailed(c) ==
    /\ pc[c] = "probe"
    /\ \E e \in RequestFailures :
        /\ rejections' = [rejections EXCEPT ![c] = Append(@, e)]
        /\ failedPorts' = [failedPorts EXCEPT ![c] = NoteFailure(@, ports[c][idx[c]], e)]
    /\ IF idx[c] < Len(ports[c])
       THEN /\ idx' = [idx EXCEPT ![c] = @ + 1]
            /\ probed' = [probed EXCEPT ![c] = Append(@, ports[c][idx[c] + 1])]
            /\ discovery' = [discovery EXCEPT ![c].probes = @ + 1]
            /\ UNCHANGED <<pc, error, inFlight>>
       ELSE /\ inFlight' = [inFlight EXCEPT ![c] = @ - 1]
            /\ Throw(c, ERR_ALL_PORTS)
            /\ UNCHANGED <<idx, probed, discovery>>
    /\ UNCHANGED <<others, globals, csrfToken, ports, conn, trackLocals, weeklyUsage, fromCache,
                   before, serviceObs>>

\* ------------------------------------------------ getUsageData, trackUsage

\* The synchronous part of trackUsage (lines 755-793): read both keys, run
\* the loop, record and prune, and start the write of the history.
TrackUsage(c, ms) ==
    LET loop == TrackLoop(ms, storage[STORAGE_KEY_LAST_QUOTAS], 0)
    IN /\ models' = [models EXCEPT ![c] = ms]
       /\ trackNow' = [trackNow EXCEPT ![c] = now]
       /\ totalDelta' = [totalDelta EXCEPT ![c] = loop.totalDelta]
       /\ lastQuotas' = [lastQuotas EXCEPT ![c] = loop.lastQuotas]
       /\ history' = [history EXCEPT ![c] =
             PruneHistory(RecordDrop(storage[STORAGE_KEY_HISTORY], now, loop.totalDelta), now)]
       /\ before' = [before EXCEPT ![c] = storage]
       /\ Len(history'[c]) <= MaxHistory

\* The fractions of the finite resources of one response (lines 716-721),
\* set against the fractions the response before carried.
RECURSIVE Watch(_, _)
Watch(obs, ms) ==
    IF ms = <<>> THEN obs
    ELSE LET m == Head(ms)
             last == obs.last[m.label]
             fall == IF last # UNDEFINED /\ m.rawQuota < last THEN last - m.rawQuota ELSE 0
         IN Watch(IF m.resetTime = NoResetTime THEN obs
                  ELSE [last |-> [obs.last EXCEPT ![m.label] = m.rawQuota],
                        decreased |-> [obs.decreased EXCEPT ![m.label] = @ + fall]],
                  Tail(ms))

\* The status query settles (lines 676-737): a rejection or a body without
\* userStatus is thrown; otherwise the models are mapped and tracked.
QueryDone(c) ==
    /\ pc[c] = "query"
    /\ \/ /\ \E e \in RequestFailures : Throw(c, e)
          /\ cacheBroken' = TRUE
          /\ UNCHANGED <<trackLocals, before, observed>>
       \/ /\ Throw(c, ERR_NO_USER_STATUS)
          /\ cacheBroken' = FALSE
          /\ UNCHANGED <<trackLocals, before, observed>>
       \/ /\ \E ms \in ModelLists :
                /\ TrackUsage(c, ms)
                /\ observed' = IF scope.observe THEN Watch(observed, ms) ELSE observed
          /\ \A l \in Labels : observed'.decreased[l] <= (MaxHistory + 1) * FULL
          /\ pc' = [pc EXCEPT ![c] = "saveHistory"]
          /\ cacheBroken' = FALSE
          /\ UNCHANGED error
    /\ UNCHANGED <<others, globals, connLocals, weeklyUsage, connObs, lastProbeOk, lastTrack>>

\* trackUsage rejected: the catch of getUsageData (lines 739-741) logs the
\* error, and getUsageData returns with weeklyUsage as initialised, 0.
TrackFailed(c) ==
    /\ error' = [error EXCEPT ![c] = ERR_STORAGE]
    /\ weeklyUsage' = [weeklyUsage EXCEPT ![c] = 0]
    /\ pc' = [pc EXCEPT ![c] = "returned"]

\* The write of the history settles (line 793); when it resolved, the
\* write of the last quotas starts (line 794).
SaveHistoryDone(c) ==
    /\ pc[c] = "saveHistory"
    /\ \/ /\ storage' = StorageUpdate(storage, STORAGE_KEY_HISTORY, history[c])
          /\ pc' = [pc EXCEPT ![c] = "saveQuotas"]
          /\ UNCHANGED <<error, weeklyUsage>>
       \/ /\ TrackFailed(c)
          /\ UNCHANGED storage
    /\ UNCHANGED <<others, scope, now, ticks, cachedConnection, connLocals, trackLocals,
                   connObs, before, serviceObs>>

\* The write of the last quotas settles (line 794); when it resolved,
\* trackUsage returns, and getUsageData reads the weekly usage (line 738)
\* and returns.
SaveQuotasDone(c) ==
    /\ pc[c] = "saveQuotas"
    /\ \/ /\ storage' = StorageUpdate(storage, STORAGE_KEY_LAST_QUOTAS, lastQuotas[c])
          /\ weeklyUsage' = [weeklyUsage EXCEPT ![c] = GetWeeklyUsage]
          /\ pc' = [pc EXCEPT ![c] = "returned"]
          /\ UNCHANGED error
       \/ /\ TrackFailed(c)
          /\ UNCHANGED storage
    /\ UNCHANGED <<others, scope, now, ticks, cachedConnection, connLocals, trackLocals,
                   connObs, before, serviceObs>>

\* ----------------------------------------------------------- refreshData

\* The cycle's locals go out of scope.
EndCycle(c) ==
    /\ pc' = [pc EXCEPT ![c] = "idle"]
    /\ csrfToken' = [csrfToken EXCEPT ![c] = ""]
    /\ ports' = [ports EXCEPT ![c] = <<>>]
    /\ idx' = [idx EXCEPT ![c] = 0]
    /\ failedPorts' = [failedPorts EXCEPT ![c] = <<>>]
    /\ conn' = [conn EXCEPT ![c] = NoConnection]
    /\ models' = [models EXCEPT ![c] = <<>>]
    /\ history' = [history EXCEPT ![c] = <<>>]
    /\ lastQuotas' = [lastQuotas EXCEPT ![c] = NoQuotas]
    /\ totalDelta' = [totalDelta EXCEPT ![c] = 0]
    /\ trackNow' = [trackNow EXCEPT ![c] = 0]
    /\ weeklyUsage' = [weeklyUsage EXCEPT ![c] = 0]
    /\ error' = [error EXCEPT ![c] = NoError]
    /\ fromCache' = [fromCache EXCEPT ![c] = FALSE]
    /\ discovery' = [discovery EXCEPT ![c] = NoDiscovery]
    /\ probed' = [probed EXCEPT ![c] = <<>>]
    /\ rejections' = [rejections EXCEPT ![c] = <<>>]
    /\ inFlight' = [inFlight EXCEPT ![c] = 0]
    /\ before' = [before EXCEPT ![c] = NoStorage]

\* getUsageData returned (extension.ts 48-129): the data is shown.
RefreshDone(c) ==
    /\ pc[c] = "returned"
    /\ lastTrack' = IF scope.remember /\ error[c] = NoError
                    THEN [called |-> TRUE, models |-> models[c],
                          total |-> weeklyUsage[c],
                          history |-> storage[STORAGE_KEY_HISTORY]]
                    ELSE NoTrack
    /\ EndCycle(c)
    /\ UNCHANGED <<others, globals, lastProbeOk, cacheBroken, observed>>

\* A catch that also wipes what trackUsage persisted.
RefreshCatchClearing(c) ==
    /\ pc[c] = "thrown"
    /\ EndCycle(c)
    /\ storage' = NoStorage
    /\ UNCHANGED <<others, scope, now, ticks, cachedConnection, serviceObs>>

\* getUsageData threw (extension.ts 131-135): the error is shown.
RefreshCatch(c) ==
    /\ pc[c] = "thrown"
    /\ EndCycle(c)
    /\ UNCHANGED <<others, globals, serviceObs>>

Next ==
    \/ Tick
    \/ \E c \in Cycles :
        \/ StartRefresh(c)
        \/ LocateDone(c)
        \/ ScanDone(c)
        \/ ProbeSucceeded(c)
        \/ ProbeFailed(c)
        \/ QueryDone(c)
        \/ SaveHistoryDone(c)
        \/ SaveQuotasDone(c)
        \/ RefreshDone(c)
        \/ RefreshCatch(c)

\* Refresh cycles one at a time, connection scenario.
Spec == Init /\ [][Next]_vars

\* Refresh cycles one at a time, tracking scenario.
SpecTrack == InitTrack /\ [][Next]_vars

\* Refresh cycles one at a time, repeated-snapshot scenario.
SpecIdem == InitIdem /\ [][Next]_vars

\* Refresh cycles started whenever a trigger fires, overlap scenario.
SpecOverlap == InitOverlap /\ [][Next]_vars

\* The service with a scanner that finds numbers that are no ports.
SpecPorts == InitPorts /\ [][Next]_vars

\* The service with two resources in one response.
SpecSum == InitSum /\ [][Next]_vars

\* Refresh cycles one at a time, with the answered fractions kept.
SpecCount == InitCount /\ [][Next]_vars

\* ------------------------------------------------ makeRequest: the steps

\* The state of the service while one makeRequest call is looked at alone.
ServiceIdle == InitState /\ scope = ConnScope

InitRequest ==
    /\ ServiceIdle
    /\ maxRetries \in RetryConfigs
    /\ retryDelay \in RetryDelays
    /\ flight = [a \in Attempts |-> 0]
    /\ destroyed = [a \in Attempts |-> 0]
    /\ timers = [a \in Attempts |-> 0]
    /\ issued = 0
    /\ outcome = NOT_CALLED
    /\ lastEvent = NoEvent
    /\ LocateOff
    /\ ScanOff
    /\ PanelOff
    /\ RefreshOff

\* makeRequest is called with attemptNumber 1 (lines 527-535, 606-607).
MakeRequest ==
    /\ outcome = NOT_CALLED
    /\ outcome' = PENDING
    /\ flight' = [flight EXCEPT ![1] = @ + 1]
    /\ issued' = issued + 1
    /\ lastEvent' = [NoEvent EXCEPT !.kind = "call", !.attempt = 1]
    /\ UNCHANGED <<coreVars, panelVars, refreshVars, locateVars, scanVars, maxRetries, retryDelay, destroyed, timers>>

\* The response of an attempt ends (lines 550-572).
ResponseEnd(a) ==
    /\ flight[a] > 0
    /\ flight' = [flight EXCEPT ![a] = @ - 1]
    /\ \E status \in Statuses, body \in Bodies :
        LET failed == status < HTTP_SUCCESS_MIN \/ status > HTTP_SUCCESS_MAX
            retry == failed /\ RetryStatus(status, a, maxRetries)
        IN /\ timers' = IF retry THEN Schedule(timers, a) ELSE timers
           /\ outcome' = IF retry THEN outcome
                          ELSE IF failed THEN Settle(outcome, HttpError(status))
                          ELSE IF body = "json" THEN Settle(outcome, RESOLVED)
                          ELSE Settle(outcome, ERR_PARSE)
           /\ lastEvent' = [kind |-> "response", attempt |-> a, status |-> status,
                             scheduled |-> IF retry THEN 1 ELSE 0,
                             followUps |-> IF retry THEN 1 ELSE 0,
                             first |-> outcome = PENDING,
                             delay |-> IF retry THEN BackoffDelay(retryDelay, a) ELSE 0]
    /\ UNCHANGED <<coreVars, panelVars, refreshVars, locateVars, scanVars, maxRetries, retryDelay, destroyed, issued>>

\* The request of an attempt emits 'error' (lines 575-587).
RequestError(a) ==
    LET retry == RetryFailure(a, maxRetries)
    IN /\ flight[a] > 0
       /\ flight' = [flight EXCEPT ![a] = @ - 1]
       /\ timers' = IF retry THEN Schedule(timers, a) ELSE timers
       /\ outcome' = IF retry THEN outcome ELSE Settle(outcome, ERR_SOCKET)
       /\ lastEvent' = [kind |-> "error", attempt |-> a, status |-> 0,
                         scheduled |-> IF retry THEN 1 ELSE 0,
                         followUps |-> IF retry THEN 1 ELSE 0,
                         first |-> outcome = PENDING,
                         delay |-> IF retry THEN BackoffDelay(retryDelay, a) ELSE 0]
       /\ UNCHANGED <<coreVars, panelVars, refreshVars, locateVars, scanVars, maxRetries, retryDelay, destroyed, issued>>

\* A timeout handler that only destroys the request on the last attempt.
RequestTimeoutNoReject(a) ==
    LET retry == RetryFailure(a, maxRetries)
    IN /\ flight[a] > 0
       /\ flight' = [flight EXCEPT ![a] = @ - 1]
       /\ destroyed' = [destroyed EXCEPT ![a] = @ + 1]
       /\ timers' = IF retry THEN Schedule(timers, a) ELSE timers
       /\ outcome' = outcome
       /\ lastEvent' = [kind |-> "timeout", attempt |-> a, status |-> 0,
                         scheduled |-> IF retry THEN 1 ELSE 0,
                         followUps |-> IF retry THEN 1 ELSE 0,
                         first |-> outcome = PENDING,
                         delay |-> IF retry THEN BackoffDelay(retryDelay, a) ELSE 0]
       /\ UNCHANGED <<coreVars, panelVars, refreshVars, locateVars, scanVars, maxRetries, retryDelay, issued>>

\* The request of an attempt emits 'timeout' (lines 589-604): the handler
\* destroys the request, then retries or rejects.
RequestTimeout(a) ==
    LET retry == RetryFailure(a, maxRetries)
    IN /\ flight[a] > 0
       /\ flight' = [flight EXCEPT ![a] = @ - 1]
       /\ destroyed' = [destroyed EXCEPT ![a] = @ + 1]
       /\ timers' = IF retry THEN Schedule(timers, a) ELSE timers
       /\ outcome' = IF retry THEN outcome ELSE Settle(outcome, ERR_TIMEOUT)
       /\ lastEvent' = [kind |-> "timeout", attempt |-> a, status |-> 0,
                         scheduled |-> IF retry THEN 1 ELSE 0,
                         followUps |-> IF retry THEN 1 ELSE 0,
                         first |-> outcome = PENDING,
                         delay |-> IF retry THEN BackoffDelay(retryDelay, a) ELSE 0]
       /\ UNCHANGED <<coreVars, panelVars, refreshVars, locateVars, scanVars, maxRetries, retryDelay, issued>>

\* A request destroyed by its timeout handler (line 590) emits 'error': the
\* error handler (lines 575-587) runs for the attempt that has timed out.
DestroyedError(a) ==
    LET retry == RetryFailure(a, maxRetries)
        already == IF RetryFailure(a, maxRetries) THEN 1 ELSE 0
    IN /\ destroyed[a] > 0
       /\ destroyed' = [destroyed EXCEPT ![a] = @ - 1]
       /\ timers' = IF retry THEN Schedule(timers, a) ELSE timers
       /\ outcome' = IF retry THEN outcome ELSE Settle(outcome, ERR_HANG_UP)
       /\ lastEvent' = [kind |-> "destroyed", attempt |-> a, status |-> 0,
                         scheduled |-> IF retry THEN 1 ELSE 0,
                         followUps |-> already + (IF retry THEN 1 ELSE 0),
                         first |-> outcome = PENDING,
                         delay |-> IF retry THEN BackoffDelay(retryDelay, a) ELSE 0]
       /\ UNCHANGED <<coreVars, panelVars, refreshVars, locateVars, scanVars, maxRetries, retryDelay, flight, issued>>

\* A request destroyed by its timeout handler closes without an 'error'.
DestroyedClose(a) ==
    /\ destroyed[a] > 0
    /\ destroyed' = [destroyed EXCEPT ![a] = @ - 1]
    /\ lastEvent' = [NoEvent EXCEPT !.kind = "close", !.attempt = a]
    /\ UNCHANGED <<coreVars, panelVars, refreshVars, locateVars, scanVars, maxRetries, retryDelay, flight, timers, issued, outcome>>

\* A retry timer fires (lines 557-561, 579-583, 596-600): makeRequest is
\* called with the next attemptNumber and issues its request.
RetryTimer(a) ==
    /\ timers[a] > 0
    /\ timers' = [timers EXCEPT ![a] = @ - 1]
    /\ flight' = [flight EXCEPT ![a] = @ + 1]
    /\ issued' = issued + 1
    /\ lastEvent' = [NoEvent EXCEPT !.kind = "retry", !.attempt = a]
    /\ UNCHANGED <<coreVars, panelVars, refreshVars, locateVars, scanVars, maxRetries, retryDelay, destroyed, outcome>>

NextRequest ==
    \/ MakeRequest
    \/ \E a \in Attempts :
        \/ ResponseEnd(a)
        \/ RequestError(a)
        \/ RequestTimeout(a)
        \/ DestroyedError(a)
        \/ DestroyedClose(a)
        \/ RetryTimer(a)

\* One top-level makeRequest call, for every retry configuration.
SpecRequest == InitRequest /\ [][NextRequest]_vars

\* The retry configurations up to the default.
InitRequestLive == InitRequest /\ maxRetries <= MAX_RETRY_ATTEMPTS

\* Every attempt in flight ends in a response, an 'error' or a 'timeout',
\* and every retry timer set with setTimeout fires.
RequestFairness ==
    \A a \in Attempts :
        /\ WF_vars(ResponseEnd(a) \/ RequestError(a) \/ RequestTimeout(a))
        /\ WF_vars(RetryTimer(a))

\* One top-level makeRequest call whose attempts all end.
SpecRequestLive == InitRequestLive /\ [][NextRequest]_vars /\ RequestFairness

\* ------------------------------------- findAntigravityProcess: the steps

InitLocate ==
    /\ ServiceIdle
    /\ RequestOff
    /\ platform \in Platforms
    /\ psOut \in {CommandFailed} \cup
          {[ok |-> TRUE, lines |-> ls] :
              ls \in SeqsUpTo(IF platform = "win32" THEN PowerShellLines ELSE PsLines,
                              MaxLines)}
    /\ located = NoLocate
    /\ ScanOff
    /\ PanelOff
    /\ RefreshOff

\* The listing command settles and findAntigravityProcess runs to its end.
Locate ==
    /\ located = NoLocate
    /\ located' = FindAntigravityProcess(platform, psOut)
    /\ UNCHANGED <<coreVars, panelVars, refreshVars, requestVars, scanVars, platform, psOut>>

NextLocate == Locate

\* One findAntigravityProcess call, for every listing.
SpecLocate == InitLocate /\ [][NextLocate]_vars

\* ----------------------------------------- findListeningPorts: the steps

InitScan ==
    /\ ServiceIdle
    /\ RequestOff
    /\ platform \in Platforms
    /\ psOut = CommandFailed
    /\ located = NoLocate
    /\ lsofOut \in
          IF platform = "win32" THEN {CommandFailed}
          ELSE {CommandFailed} \cup
               {[ok |-> TRUE, lines |-> ls] : ls \in SeqsUpTo(LsofLines, MaxLines)}
    /\ netstatOut \in {CommandFailed} \cup
          {[ok |-> TRUE, lines |-> ls] :
              ls \in SeqsUpTo(IF platform = "win32" THEN WinNetstatLines
                                                     ELSE NetstatLines, MaxLines)}
    /\ scanPc = "start"
    /\ ran = <<>>
    /\ scanned = NoScan
    /\ PanelOff
    /\ RefreshOff

\* findListeningPorts is called (lines 440-446, 471-475) and runs its
\* first command: netstat on Windows, lsof elsewhere.
ScanStart ==
    /\ scanPc = "start"
    /\ IF platform = "win32"
       THEN ran' = <<"netstat">> /\ scanPc' = "netstat"
       ELSE ran' = <<"lsof">> /\ scanPc' = "lsof"
    /\ UNCHANGED <<coreVars, panelVars, refreshVars, requestVars, locateVars, lsofOut, netstatOut, scanned>>

\* lsof settles (lines 475-486): its ports are returned, or netstat is run.
LsofDone ==
    /\ scanPc = "lsof"
    /\ IF NeedsFallback(lsofOut)
       THEN /\ ran' = Append(ran, "netstat")
            /\ scanPc' = "netstat"
            /\ UNCHANGED scanned
       ELSE /\ scanned' = ScanOk(LsofPorts(lsofOut.lines))
            /\ scanPc' = "done"
            /\ UNCHANGED ran
    /\ UNCHANGED <<coreVars, panelVars, refreshVars, requestVars, locateVars, lsofOut, netstatOut>>

\* netstat settles (lines 446-470 on Windows, 486-498 elsewhere).
NetstatDone ==
    /\ scanPc = "netstat"
    /\ scanned' = IF ~netstatOut.ok THEN ScanError
                   ELSE IF platform = "win32"
                   THEN ScanOk(WinNetstatPorts(netstatOut.lines))
                   ELSE ScanOk(NetstatPorts(netstatOut.lines))
    /\ scanPc' = "done"
    /\ UNCHANGED <<coreVars, panelVars, refreshVars, requestVars, locateVars, lsofOut, netstatOut, ran>>

NextScan ==
    \/ ScanStart
    \/ LsofDone
    \/ NetstatDone

\* One findListeningPorts call, for every output of its commands.
SpecScan == InitScan /\ [][NextScan]_vars

\* ---------------------------------------------- DashboardPanel: the steps

InitPanel ==
    /\ ServiceIdle
    /\ RequestOff
    /\ LocateOff
    /\ ScanOff
    /\ PanelOff
    /\ RefreshOff

\* createOrShow (lines 64-86), with the column of the active editor: the
\* current panel is revealed, or a panel is created and made current; its
\* constructor starts _update (line 34).
CreateOrShow(column) ==
    IF HasPanel(currentPanel)
    THEN /\ panels[currentPanel].state = "open"
         /\ panels' = [panels EXCEPT ![currentPanel].visible = TRUE,
                                      ![currentPanel].column =
                                          IF column = NoColumn THEN @ ELSE column]
         /\ lastCall' = "revealed"
         /\ UNCHANGED <<currentPanel, created>>
    ELSE /\ created < MaxPanels
         /\ created' = created + 1
         /\ panels' = [panels EXCEPT ![created + 1] =
                [state |-> "open",
                 column |-> IF column = NoColumn THEN ViewColumnOne ELSE column,
                 visible |-> TRUE,
                 html |-> "loading"]]
         /\ currentPanel' = created + 1
         /\ lastCall' = "created"

\* The showDashboard command (extension.ts 22-25).
ShowDashboard ==
    /\ \E column \in ViewColumns : CreateOrShow(column)
    /\ UNCHANGED <<coreVars, requestVars, locateVars, scanVars, refreshVars>>

\* The user closes panel p: onDidDispose calls dispose (lines 40, 91-98).
Dispose(p) ==
    /\ panels[p].state = "open"
    /\ currentPanel' = NoPanel
    /\ panels' = [panels EXCEPT ![p].state = "disposed", ![p].visible = FALSE]
    /\ lastCall' = "disposed"
    /\ UNCHANGED <<coreVars, requestVars, locateVars, scanVars, refreshVars, created>>

\* _update of panel p settles (lines 120-130): the page, or the error page.
UpdateDone(p) ==
    /\ panels[p].state = "open"
    /\ panels[p].html = "loading"
    /\ \E page \in {"dashboard", "error"} :
          panels' = [panels EXCEPT ![p].html = page]
    /\ lastCall' = "loaded"
    /\ UNCHANGED <<coreVars, requestVars, locateVars, scanVars, refreshVars, currentPanel, created>>

\* The tab of panel p is hidden or shown (lines 52-56).
ChangeViewState(p) ==
    /\ panels[p].state = "open"
    /\ panels' = [panels EXCEPT ![p].visible = ~@]
    /\ lastCall' = "viewState"
    /\ UNCHANGED <<coreVars, requestVars, locateVars, scanVars, refreshVars, currentPanel, created>>

NextPanel ==
    \/ ShowDashboard
    \/ \E p \in PanelIds :
        \/ Dispose(p)
        \/ UpdateDone(p)
        \/ ChangeViewState(p)

\* The dashboard, opened, revealed and closed by the user.
SpecPanel == InitPanel /\ [][NextPanel]_vars

\* ------------------------------------------------- refreshData: the steps

InitRefresh ==
    /\ InitState
    /\ scope = AlertScope
    /\ RequestOff
    /\ LocateOff
    /\ ScanOff
    /\ PanelOff
    /\ RefreshOff

\* refreshData is called (activation, timer, command) and awaits
\* getUsageData; nothing holds a call back while another is awaiting.
RefreshData ==
    /\ refreshes < MaxRefreshes
    /\ awaiting < MaxInFlight
    /\ refreshes' = refreshes + 1
    /\ awaiting' = awaiting + 1
    /\ UNCHANGED <<coreVars, requestVars, locateVars, scanVars, panelVars,
                   consecutiveErrors, alertQuotas, retryOffers, log, shown>>

\* getUsageData resolved: the try block runs to its end.
RefreshRendered ==
    /\ awaiting > 0
    /\ awaiting' = awaiting - 1
    /\ \E ms \in ModelLists :
          LET done == AlertLoop(SortByLabel(ms), alertQuotas, <<>>)
          IN /\ alertQuotas' = done.quotas
             /\ shown' = [entries |-> done.entries, error |-> FALSE]
    /\ consecutiveErrors' = 0
    /\ log' = Append(log, "ok")
    /\ UNCHANGED <<coreVars, requestVars, locateVars, scanVars, panelVars,
                   refreshes, retryOffers>>

\* getUsageData rejected: the catch block.
RefreshFailed ==
    /\ awaiting > 0
    /\ awaiting' = awaiting - 1
    /\ consecutiveErrors' = consecutiveErrors + 1
    /\ log' = Append(log, "fail")
    /\ shown' = [entries |-> <<>>, error |-> ShouldNotify(consecutiveErrors + 1)]
    /\ retryOffers' = IF ShouldNotify(consecutiveErrors + 1)
                      THEN retryOffers + 1 ELSE retryOffers
    /\ UNCHANGED <<coreVars, requestVars, locateVars, scanVars, panelVars,
                   alertQuotas, refreshes>>

\* The user presses Retry on an error notification: the counter is reset
\* and refreshData is called.
RetryPressed ==
    /\ retryOffers > 0
    /\ refreshes < MaxRefreshes
    /\ awaiting < MaxInFlight
    /\ retryOffers' = retryOffers - 1
    /\ consecutiveErrors' = 0
    /\ log' = Append(log, "retry")
    /\ refreshes' = refreshes + 1
    /\ awaiting' = awaiting + 1
    /\ UNCHANGED <<coreVars, requestVars, locateVars, scanVars, panelVars,
                   alertQuotas, shown>>

\* The user dismisses an error notification.
NotificationDismissed ==
    /\ retryOffers > 0
    /\ retryOffers' = retryOffers - 1
    /\ UNCHANGED <<coreVars, requestVars, locateVars, scanVars, panelVars,
                   consecutiveErrors, alertQuotas, awaiting, refreshes, log, shown>>

NextRefresh ==
    \/ RefreshData
    \/ RefreshRendered
    \/ RefreshFailed
    \/ RetryPressed
    \/ NotificationDismissed

\* The refresh loop, with getUsageData resolving or rejecting.
SpecRefresh == InitRefresh /\ [][NextRefresh]_vars

\* ------------------------------- the refresh loop once the target is up

AUTO_REFRESH_INTERVAL_MS == 60000

\* The port the status API of the running process answers on, and the
\* token in its arguments.
ApiPort == 42100
ApiToken == "tok-1"

\* Cached entries of a process that is gone: another port, or the token
\* of the process before its restart.
StaleEntries ==
    {[port |-> p, csrfToken |-> k, timestamp |-> now] :
        p \in HealScope.portNums, k \in {ApiToken, "tok-0"}}
    \ {[port |-> ApiPort, csrfToken |-> ApiToken, timestamp |-> now]}

InitHeal == InitState /\ OthersOff /\ scope = HealScope

\* What the time before the target came up has left: a cached entry that
\* no longer answers, and failures counted.
LeftBehind ==
    /\ refreshes = 0
    /\ cachedConnection = NoConnection
    /\ consecutiveErrors = 0
    /\ cachedConnection' \in StaleEntries
    /\ consecutiveErrors' \in 1..MAX_CONSECUTIVE_ERRORS
    /\ UNCHANGED <<scope, now, ticks, storage, pc, connLocals, trackLocals, weeklyUsage,
                   error, connObs, before, serviceObs, requestVars, locateVars, scanVars,
                   panelVars, alertQuotas, awaiting, refreshes, retryOffers, log, shown>>

\* The timer set with setInterval fires (README.md 731), one interval
\* after it fired last: refreshData calls getUsageData, which calls
\* getConnection (part_002 629-637).
TimerFires(c) ==
    /\ pc[c] = "idle"
    /\ \A d \in Cycles : pc[d] = "idle"
    /\ c = 1
    /\ ticks < MaxTimerTicks
    /\ ticks' = ticks + 1
    /\ now' = now + AUTO_REFRESH_INTERVAL_MS
    /\ refreshes' = refreshes + 1
    /\ awaiting' = awaiting + 1
    /\ IF CacheFresh(cachedConnection, now')
       THEN /\ conn' = [conn EXCEPT ![c] = cachedConnection]
            /\ fromCache' = [fromCache EXCEPT ![c] = TRUE]
            /\ pc' = [pc EXCEPT ![c] = "query"]
            /\ UNCHANGED discovery
       ELSE /\ pc' = [pc EXCEPT ![c] = "locate"]
            /\ discovery' = [discovery EXCEPT ![c].listings = @ + 1]
            /\ UNCHANGED <<conn, fromCache>>
    /\ UNCHANGED <<scope, cachedConnection, storage, csrfToken, ports, idx, failedPorts,
                   trackLocals, weeklyUsage, error, probed, rejections, inFlight, before,
                   serviceObs, requestVars, locateVars, scanVars, panelVars,
                   consecutiveErrors, alertQuotas, retryOffers, log, shown>>

\* The process is running: the listing finds it, with its token.
LocateFinds(c) == LocateDone(c) /\ pc'[c] = "scan" /\ csrfToken'[c] = ApiToken

\* The process is listening: the scan finds its ports, the API's among them.
ScanFinds(c) ==
    /\ ScanDone(c)
    /\ pc'[c] = "probe"
    /\ \E i \in 1..Len(ports'[c]) : ports'[c][i] = ApiPort

\* The API answers the probe on its port.
ProbeAnswered(c) == ProbeSucceeded(c) /\ ports[c][idx[c]] = ApiPort /\ csrfToken[c] = ApiToken

\* Nothing answers the probe on another port.
ProbeUnanswered(c) == ProbeFailed(c) /\ ports[c][idx[c]] # ApiPort

\* The status query is answered 2xx with a userStatus on the API's port
\* with its token, and fails on a connection of a process that is gone.
QueryAnswered(c) ==
    /\ QueryDone(c)
    /\ IF conn[c].port = ApiPort /\ conn[c].csrfToken = ApiToken
       THEN pc'[c] = "saveHistory"
       ELSE pc'[c] = "thrown" /\ error'[c] \in RequestFailures

\* getUsageData resolved (README.md 742-818): the try block runs to its
\* end and the counter is reset.
TimerRendered(c) ==
    /\ pc[c] = "returned"
    /\ awaiting > 0
    /\ awaiting' = awaiting - 1
    /\ LET done == AlertLoop(SortByLabel(models[c]), alertQuotas, <<>>)
       IN /\ alertQuotas' = done.quotas
          /\ shown' = [entries |-> done.entries, error |-> FALSE]
    /\ consecutiveErrors' = 0
    /\ log' = Append(log, "ok")
    /\ lastTrack' = NoTrack
    /\ EndCycle(c)
    /\ UNCHANGED <<globals, lastProbeOk, cacheBroken, observed, requestVars, locateVars,
                   scanVars, panelVars, refreshes, retryOffers>>

\* getUsageData rejected (README.md 820-848): the catch block.
TimerFailed(c) ==
    /\ pc[c] = "thrown"
    /\ awaiting > 0
    /\ awaiting' = awaiting - 1
    /\ consecutiveErrors' = consecutiveErrors + 1
    /\ log' = Append(log, "fail")
    /\ shown' = [entries |-> <<>>, error |-> ShouldNotify(consecutiveErrors + 1)]
    /\ retryOffers' = IF ShouldNotify(consecutiveErrors + 1)
                      THEN retryOffers + 1 ELSE retryOffers
    /\ EndCycle(c)
    /\ UNCHANGED <<globals, serviceObs, requestVars, locateVars, scanVars, panelVars,
                   alertQuotas, refreshes>>

\* The awaits of a cycle settle.
CycleStep(c) ==
    \/ LocateFinds(c)
    \/ ScanFinds(c)
    \/ ProbeAnswered(c)
    \/ ProbeUnanswered(c)
    \/ QueryAnswered(c)
    \/ SaveHistoryDone(c)
    \/ SaveQuotasDone(c)
    \/ TimerRendered(c)
    \/ TimerFailed(c)

NextHeal ==
    \/ LeftBehind
    \/ \E c \in Cycles : TimerFires(c)
    \/ \E c \in Cycles : CycleStep(c)

\* The refresh loop on its timer with the target up: the timer keeps
\* firing and every await settles.
SpecHeal ==
    /\ InitHeal
    /\ [][NextHeal]_vars
    /\ WF_vars(\E c \in Cycles : TimerFires(c))
    /\ WF_vars(\E c \in Cycles : CycleStep(c))

\* ================================================================ claims

HistoryKey == STORAGE_KEY_HISTORY
QuotasKey == STORAGE_KEY_LAST_QUOTAS

\* trackUsage of cycle c has run its synchronous part.
Tracking(c) == pc[c] \in {"saveHistory", "saveQuotas", "returned"}

\* trackUsage of cycle c has completed and getUsageData has returned.
Tracked(c) == pc[c] = "returned" /\ error[c] = NoError

\* ------------------------------------------------------------------- C1
\* C1: when a storage write of trackUsage fails, nothing of the cycle is
\* applied: both stored keys hold the values they had before the cycle.
C1_NoPartialWrite ==
    \A c \in Cycles :
        (pc[c] = "returned" /\ error[c] = ERR_STORAGE) => storage = before[c]

\* ------------------------------------------------------------------- C2
IsSuffix(a, b) ==
    Len(a) <= Len(b) /\ a = SubSeq(b, Len(b) - Len(a) + 1, Len(b))

\* Cycle c has completed trackUsage with the snapshot list of the call before it.
Repeated(c) == Tracked(c) /\ lastTrack.called /\ models[c] = lastTrack.models

Expired(h, t) == SelectSeq(h, LAMBDA e : t - e.ts >= USAGE_HISTORY_WINDOW_MS)
Younger(h, t) == SelectSeq(h, LAMBDA e : t - e.ts < USAGE_HISTORY_WINDOW_MS)

\* C2 as stated: a second trackUsage call with the same snapshot list
\* appends no history entry and returns the total the first call returned.
C2_Idempotent ==
    \A c \in Cycles :
        Repeated(c) =>
            /\ IsSuffix(storage[HistoryKey], lastTrack.history)
            /\ weeklyUsage[c] = lastTrack.total

\* C2 amended: a second trackUsage call with the same snapshot list
\* appends no history entry; it removes exactly the entries that have
\* reached the window age by its clock read, and the total it returns is
\* the first call's total less the deltas of those entries (the same total
\* when no entry has expired).
C2_IdempotentUnlessExpired ==
    \A c \in Cycles :
        Repeated(c) =>
            /\ storage[HistoryKey] = Younger(lastTrack.history, trackNow[c])
            /\ weeklyUsage[c] =
                  lastTrack.total - SumDelta(Expired(lastTrack.history, trackNow[c]))

C2_Witness ==
    \E c \in Cycles :
        /\ Repeated(c)
        /\ Len(models[c]) = 1
        /\ models[c][1].resetTime # NoResetTime
        /\ lastTrack.history # <<>>
        /\ storage[HistoryKey] = lastTrack.history
        /\ weeklyUsage[c] > 0

\* ------------------------------------------------------------------- C3
\* What the models of one cycle may add to totalDelta: for each finite model
\* with a stored baseline, its drop when strictly between the thresholds.
RECURSIVE ExpectedDelta(_, _)
ExpectedDelta(ms, base) ==
    IF ms = <<>> THEN 0
    ELSE LET m == Head(ms)
             diff == base[m.label] - m.rawQuota
         IN (IF /\ m.resetTime # NoResetTime
                /\ base[m.label] # UNDEFINED
                /\ diff > USAGE_DETECTION_MIN_THRESHOLD
                /\ diff < USAGE_DETECTION_MAX_THRESHOLD
             THEN diff ELSE 0) + ExpectedDelta(Tail(ms), base)

\* C3: a drop at or below the minimum threshold, or at or above the maximum
\* threshold, is never added to totalDelta; the total of a cycle is the sum
\* of the drops strictly between the two thresholds.
C3_ThresholdsExclusive ==
    \A c \in Cycles :
        Tracking(c) => totalDelta[c] = ExpectedDelta(models[c], before[c][QuotasKey])

\* A drop of exactly the maximum threshold was seen and not counted.
C3_Witness ==
    \E c \in Cycles :
        /\ pc[c] = "saveHistory"
        /\ Len(models[c]) = 1
        /\ models[c][1].resetTime # NoResetTime
        /\ before[c][QuotasKey][models[c][1].label] - models[c][1].rawQuota
              = USAGE_DETECTION_MAX_THRESHOLD
        /\ totalDelta[c] = 0

\* A drop of exactly the minimum threshold was seen and not counted.
C3_WitnessMin ==
    \E c \in Cycles :
        /\ pc[c] = "saveHistory"
        /\ Len(models[c]) = 1
        /\ models[c][1].resetTime # NoResetTime
        /\ before[c][QuotasKey][models[c][1].label] - models[c][1].rawQuota
              = USAGE_DETECTION_MIN_THRESHOLD
        /\ totalDelta[c] = 0

\* ------------------------------------------------------------------- C4
\* C4: right after a trackUsage call that completed, every stored history
\* entry is younger than the window, by the clock that call read.
C4_PrunedAfterTrack ==
    \A c \in Cycles :
        Tracked(c) =>
            \A e \in Range(storage[HistoryKey]) :
                trackNow[c] - e.ts < USAGE_HISTORY_WINDOW_MS

\* A call that appended nothing removed an entry of exactly the window age.
C4_Witness ==
    \E c \in Cycles :
        /\ Tracked(c)
        /\ totalDelta[c] = 0
        /\ \E e \in Range(before[c][HistoryKey]) :
              /\ trackNow[c] - e.ts = USAGE_HISTORY_WINDOW_MS
              /\ e \notin Range(storage[HistoryKey])

\* ------------------------------------------------------------------- C5
\* C5: every entry of the stored history, and of a history about to be
\* stored, has a delta greater than 0.
C5_DeltaPositive ==
    /\ \A e \in Range(storage[HistoryKey]) : e.delta > 0
    /\ \A c \in Cycles : \A e \in Range(history[c]) : e.delta > 0

\* A call that saw a finite model and no countable drop left the
\* non-empty history without a new entry.
C5_Witness ==
    \E c \in Cycles :
        /\ Tracked(c)
        /\ Len(models[c]) = 1
        /\ models[c][1].resetTime # NoResetTime
        /\ totalDelta[c] = 0
        /\ storage[HistoryKey] # <<>>
        /\ storage[HistoryKey] = before[c][HistoryKey]

\* ------------------------------------------------------------------- C6
PairOf(cc) == <<cc.port, cc.csrfToken>>

\* C6: a connection that is cached, or that getConnection returned, has
\* the port and token of a probe that getConnection saw succeed.
C6_CachedIsValidated ==
    /\ cachedConnection # NoConnection => PairOf(cachedConnection) = lastProbeOk
    /\ \A c \in Cycles : conn[c] # NoConnection => PairOf(conn[c]) = lastProbeOk

\* The second port of the list was validated and cached after the first failed.
C6_Witness ==
    \E c \in Cycles :
        /\ pc[c] = "query"
        /\ ~fromCache[c]
        /\ idx[c] = 2
        /\ ports[c][1] # ports[c][2]
        /\ cachedConnection.port = ports[c][2]
        /\ conn[c] = cachedConnection

\* ------------------------------------------------------------------- C7
\* C7: after a status query on the cached connection failed, the next
\* getConnection does not return that cached entry.
C7_SelfHealing ==
    \A c \in Cycles : (pc[c] = "query" /\ fromCache[c]) => ~cacheBroken

\* ------------------------------------------------------------------- C8
\* C8: a getConnection call that finds a cached entry younger than the TTL
\* returns that entry and issues no process listing, no port scan and no
\* probe, then and for the rest of the call.
C8_CacheReuse ==
    /\ [][\A c \in Cycles :
            (/\ pc[c] = "idle"
             /\ pc'[c] # "idle"
             /\ cachedConnection # NoConnection
             /\ now - cachedConnection.timestamp < CACHE_TTL_MS)
            => /\ pc'[c] = "query"
               /\ fromCache'[c]
               /\ conn'[c] = cachedConnection
               /\ cachedConnection' = cachedConnection
               /\ discovery'[c] = NoDiscovery]_vars
    /\ [](\A c \in Cycles :
            fromCache[c] => discovery[c] = NoDiscovery /\ probed[c] = <<>>)

\* A call one millisecond before the TTL was answered from the cache.
C8_Witness ==
    \E c \in Cycles :
        /\ pc[c] = "query"
        /\ fromCache[c]
        /\ now - conn[c].timestamp = CACHE_TTL_MS - 1
        /\ discovery[c] = NoDiscovery

\* ------------------------------------------------------------------- C9
\* C9: the ports are probed one at a time in list order; the port whose
\* probe succeeds is cached, and no later port is probed.
C9_ShortCircuit ==
    \A c \in Cycles :
        /\ inFlight[c] <= 1
        /\ Len(probed[c]) <= Len(ports[c])
        /\ probed[c] = SubSeq(ports[c], 1, Len(probed[c]))
        /\ pc[c] = "probe" =>
              inFlight[c] = 1 /\ Len(probed[c]) = Len(failedPorts[c]) + 1
        /\ (conn[c] # NoConnection /\ ~fromCache[c]) =>
              /\ inFlight[c] = 0
              /\ Len(probed[c]) = Len(failedPorts[c]) + 1
              /\ conn[c].port = probed[c][Len(probed[c])]

\* Of three ports the first failed, the second succeeded, the third was not probed.
C9_Witness ==
    \E c \in Cycles :
        /\ pc[c] = "query"
        /\ Len(ports[c]) = 3
        /\ Cardinality(Range(ports[c])) = 3
        /\ probed[c] = <<ports[c][1], ports[c][2]>>
        /\ cachedConnection.port = ports[c][2]

\* ------------------------------------------------------------------ C10
\* C10: when every port fails, the aggregate error lists one entry per
\* port, in probe order, each with the reason that port's probe failed with.
C10_AggregateError ==
    \A c \in Cycles :
        (pc[c] = "thrown" /\ error[c] = ERR_ALL_PORTS) =>
            /\ Len(failedPorts[c]) = Len(ports[c])
            /\ Len(probed[c]) = Len(ports[c])
            /\ \A i \in 1..Len(failedPorts[c]) :
                  failedPorts[c][i] = [port |-> ports[c][i], error |-> rejections[c][i]]

\* Three ports answered HTTP 401.
C10_Witness ==
    \E c \in Cycles :
        /\ pc[c] = "thrown"
        /\ error[c] = ERR_ALL_PORTS
        /\ Len(ports[c]) = 3
        /\ Len(failedPorts[c]) = 3
        /\ \A i \in 1..3 : failedPorts[c][i].error = "HTTP 401"

\* ------------------------------------------------------------------ C14
\* C14: when trackUsage throws, getUsageData still returns, and the
\* weeklyUsage it returns is the sum of the previously persisted history
\* (the history as the cycle found it, or as the cycle left it).
C14_KeepsAggregate ==
    \A c \in Cycles :
        (pc[c] = "returned" /\ error[c] = ERR_STORAGE) =>
            \/ weeklyUsage[c] = SumDelta(before[c][HistoryKey])
            \/ weeklyUsage[c] = SumDelta(storage[HistoryKey])

\* ------------------------------------------------------------------ C19
\* The deltas of the first n entries of h, added from the last to the first.
RECURSIVE DeltaTotal(_, _)
DeltaTotal(h, n) == IF n = 0 THEN 0 ELSE h[n].delta + DeltaTotal(h, n - 1)

\* C19: after a trackUsage call that completed, the weeklyUsage returned is
\* the sum of the deltas of the entries of the persisted history, which is
\* the pruned history that call wrote, and it is not negative.
C19_WeeklyIsSum ==
    \A c \in Cycles :
        Tracked(c) =>
            /\ storage[HistoryKey] = history[c]
            /\ weeklyUsage[c] = DeltaTotal(storage[HistoryKey], Len(storage[HistoryKey]))
            /\ weeklyUsage[c] >= 0

\* A call that appended an entry and pruned an older one returned the new
\* entry's delta alone.
C19_Witness ==
    \E c \in Cycles :
        /\ Tracked(c)
        /\ before[c][HistoryKey] # <<>>
        /\ totalDelta[c] > 0
        /\ storage[HistoryKey] = <<[ts |-> trackNow[c], delta |-> totalDelta[c]]>>
        /\ weeklyUsage[c] = totalDelta[c]

\* A call returned the sum of two entries.
C19_WitnessTwo ==
    \E c \in Cycles :
        /\ Tracked(c)
        /\ Len(storage[HistoryKey]) = 2
        /\ weeklyUsage[c] = storage[HistoryKey][1].delta + storage[HistoryKey][2].delta

\* ------------------------------------------------------------------ C15
\* C15: a new refreshData cycle never starts while another is in flight:
\* at most one cycle is between its start and its completion.
C15_Serialized ==
    Cardinality({c \in Cycles : pc[c] # "idle"}) <= 1

\* ------------------------------------------------------------------ C11
\* C11: one top-level makeRequest call issues at most maxRetries HTTPS
\* attempts in total, whatever the attempts end with.
C11_BoundedAttempts == issued <= maxRetries

\* ------------------------------------------------------------------ C12
\* C12: an attempt that timed out leads to at most one follow-up attempt,
\* also when destroying its request makes the 'error' handler run.
C12_OneFollowUp == lastEvent.followUps <= 1

\* ------------------------------------------------------------------ C13
ClientErrors == {s \in Statuses : s >= 400 /\ s <= 499}

Quiet == \A a \in Attempts : flight[a] = 0 /\ destroyed[a] = 0 /\ timers[a] = 0

C13_WitnessFirst ==
    /\ lastEvent.kind = "response"
    /\ lastEvent.status = 401
    /\ lastEvent.attempt = 1
    /\ maxRetries = 3
    /\ issued = 1
    /\ outcome = "HTTP 401"

\* ------------------------------------------------------------------ C16
\* A line the claim calls a candidate: one that contains the application
\* identifier or the token flag.
CandidateLines == {i \in 1..Len(psOut.lines) :
                      psOut.lines[i].ident \/ psOut.lines[i].flag # "none"}

\* A candidate with a number in front and a token after the flag.
YieldingLines == {i \in CandidateLines :
                     psOut.lines[i].pid # NoPid /\ psOut.lines[i].flag = "value"}

\* C16: given a listing, the locator fails with 'process not found' exactly
\* when no line is a candidate, with 'found but no token' exactly when
\* there are candidates and none has both a pid and a token, and returns
\* a handle in every other case.
C16_LocatorErrors ==
    (located # NoLocate /\ psOut.ok) =>
        /\ located.error = ERR_NOT_FOUND <=> CandidateLines = {}
        /\ located.error = ERR_NO_TOKEN <=> (CandidateLines # {} /\ YieldingLines = {})
        /\ located.status = "handle" <=> YieldingLines # {}
        /\ located.status = "handle" =>
              (located.pid \in Pids /\ located.csrfToken = SomeToken)

\* Two candidates, one with a token and no pid, one with a pid and a blank
\* token: 'found but no token'.
C16_Witness ==
    /\ located.error = ERR_NO_TOKEN
    /\ Len(psOut.lines) = 2
    /\ psOut.lines[1].flag = "value" /\ psOut.lines[1].pid = NoPid
    /\ psOut.lines[2].flag = "blank" /\ psOut.lines[2].pid = SomePid

\* ------------------------------------------------------------------ C17
ScanSettled == scanPc = "done"

\* C17: the scanner fails only when every strategy of its platform failed;
\* on Unix netstat runs only when the lsof command itself failed, and an
\* lsof run that succeeds with no LISTEN line gives the empty list, with no
\* fallback and no error.
C17_FailsOnlyWhenAllFail ==
    /\ ScanSettled =>
          /\ scanned.status \in {"ok", "error"}
          /\ scanned.status = "error" <=>
                IF platform = "win32" THEN ~netstatOut.ok
                ELSE ~lsofOut.ok /\ ~netstatOut.ok
    /\ (platform # "win32" /\ scanPc \in {"netstat", "done"}) =>
          /\ ran[1] = "lsof"
          /\ ("netstat" \in Range(ran)) <=> ~lsofOut.ok
          /\ (lsofOut.ok /\ \A i \in 1..Len(lsofOut.lines) : lsofOut.lines[i].port = NoPort)
                => scanned = ScanOk(<<>>)

\* lsof succeeded with lines and no LISTEN line, netstat would have found a
\* port: the empty list is returned and netstat was not run.
C17_Witness ==
    /\ ScanSettled
    /\ platform = "linux"
    /\ lsofOut.ok /\ Len(lsofOut.lines) = 2
    /\ netstatOut.ok /\ NetstatPorts(netstatOut.lines) # <<>>
    /\ ran = <<"lsof">>
    /\ scanned = ScanOk(<<>>)

\* lsof failed and netstat answered: the fallback's ports are returned.
C17_WitnessFallback ==
    /\ ScanSettled
    /\ platform = "linux"
    /\ ~lsofOut.ok
    /\ ran = <<"lsof", "netstat">>
    /\ scanned.status = "ok" /\ scanned.ports # <<>>

\* ------------------------------------------------------------------ C18
\* C18: the list findListeningPorts returns never holds a port twice.
C18_NoDuplicates ==
    scanned.status = "ok" =>
        \A i, j \in 1..Len(scanned.ports) :
            i # j => scanned.ports[i] # scanned.ports[j]

\* ------------------------------------------------------------------ C20
OpenPanels == {p \in PanelIds : panels[p].state = "open"}

\* What a step of the dashboard must respect.
SingletonStep ==
    /\ (currentPanel # NoPanel /\ lastCall' \in {"revealed", "created"}) =>
          (/\ lastCall' = "revealed"
           /\ created' = created
           /\ currentPanel' = currentPanel
           /\ panels'[currentPanel].visible)
    /\ (lastCall' = "disposed") => (currentPanel' = NoPanel)
    /\ (currentPanel = NoPanel /\ lastCall' \in {"revealed", "created"}) =>
          (/\ lastCall' = "created"
           /\ created' = created + 1
           /\ panels[currentPanel'].state = "none"
           /\ panels'[currentPanel'].state = "open")

\* C20: at most one DashboardPanel exists, and it is the current one;
\* createOrShow with a current panel reveals it and creates none; dispose
\* leaves currentPanel undefined; createOrShow without a current panel
\* creates a fresh one.
C20_Singleton ==
    /\ [](Cardinality(OpenPanels) <= 1)
    /\ [](OpenPanels = IF currentPanel = NoPanel THEN {} ELSE {currentPanel})
    /\ [][SingletonStep]_panelVars

\* The first panel was closed, a second one created and then revealed.
C20_Witness ==
    /\ lastCall = "revealed"
    /\ created = 2
    /\ panels[1].state = "disposed"
    /\ currentPanel = 2
    /\ panels[2].state = "open"

\* ------------------------------------------------------------------ C21
\* The failed refreshes at the end of the log, up to the last refresh that
\* succeeded or the last Retry.
RECURSIVE FailedInARow(_)
FailedInARow(l) ==
    IF l = <<>> \/ l[Len(l)] # "fail" THEN 0
    ELSE 1 + FailedInARow(SubSeq(l, 1, Len(l) - 1))

\* C21: a refresh that failed shows the error notification exactly when
\* MAX_CONSECUTIVE_ERRORS or more refreshes have failed in a row since the
\* last successful refresh and the last Retry; after a successful refresh
\* the counter is 0.
C21_ErrorBoundary ==
    /\ (log # <<>> /\ log[Len(log)] = "fail") =>
          (shown.error <=> FailedInARow(log) >= MAX_CONSECUTIVE_ERRORS)
    /\ (log # <<>> /\ log[Len(log)] = "ok") =>
          (consecutiveErrors = 0 /\ ~shown.error)

\* One failure more than the limit: the notification is shown again.
C21_Witness ==
    /\ FailedInARow(log) = MAX_CONSECUTIVE_ERRORS + 1
    /\ shown.error

\* A failure after a Retry is not reported.
C21_WitnessRetry ==
    /\ Len(log) > 2
    /\ log[Len(log) - 1] = "retry"
    /\ log[Len(log)] = "fail"
    /\ ~shown.error

\* ------------------------------------------------------------------ C22
\* The percentage recorded for the label of entry i before that entry was
\* displayed: by an earlier entry of the same refresh, or else by an
\* earlier refresh; UNDEFINED if the label was never seen.
Earlier(entries, i) == {j \in 1..(i - 1) : entries[j].label = entries[i].label}

PreviouslyRecorded(entries, i, quotas) ==
    IF Earlier(entries, i) = {} THEN quotas[entries[i].label]
    ELSE entries[CHOOSE j \in Earlier(entries, i) :
                     \A k \in Earlier(entries, i) : k <= j].q

\* The last entry displayed for the label of entry i.
LastEntryOf(entries, i) ==
    CHOOSE j \in 1..Len(entries) :
        /\ entries[j].label = entries[i].label
        /\ \A k \in 1..Len(entries) : entries[k].label = entries[i].label => k <= j

\* A refresh was rendered in this step.
Rendered == log' = Append(log, "ok")

\* C22: a refresh shows the low-quota warning for a label exactly when the
\* percentage recorded for that label before was at least
\* QUOTA_CRITICAL_THRESHOLD and the new percentage is below it (never on
\* the first observation of the label, and not again while it stays
\* below), and the new percentage is what is recorded for the label.
C22_WarnsOncePerCrossing ==
    [][Rendered =>
        \A i \in 1..Len(shown'.entries) :
            LET prevQ == PreviouslyRecorded(shown'.entries, i, alertQuotas)
                q == shown'.entries[i].q
            IN /\ shown'.entries[i].low <=>
                    (/\ prevQ # UNDEFINED
                     /\ prevQ >= QUOTA_CRITICAL_THRESHOLD
                     /\ q < QUOTA_CRITICAL_THRESHOLD)
               /\ alertQuotas'[shown'.entries[i].label] =
                    shown'.entries[LastEntryOf(shown'.entries, i)].q
    ]_refreshVars

\* A warning is on display: the label went from 10 % to 9 %.
C22_Witness ==
    \E i \in 1..Len(shown.entries) :
        /\ shown.entries[i].low
        /\ shown.entries[i].prevQ = 10
        /\ shown.entries[i].q = 9

\* A label found at 9 % again is not warned about again.
C22_WitnessStaysLow ==
    \E i \in 1..Len(shown.entries) :
        /\ ~shown.entries[i].low
        /\ shown.entries[i].prevQ = 9
        /\ shown.entries[i].q = 9

\* A label first seen at 9 % is not warned about.
C22_WitnessFirst ==
    \E i \in 1..Len(shown.entries) :
        /\ ~shown.entries[i].low
        /\ shown.entries[i].prevQ = UNDEFINED
        /\ shown.entries[i].q = 9

\* ------------------------------------------------------------------ C23
Finite(m) == m.resetTime # NoResetTime

\* C23: after a trackUsage call that completed, the stored last quota of
\* every model with a resetTime is that model's fraction, whatever the
\* change was.
C23_BaselineFollowsSnapshot ==
    \A c \in Cycles :
        Tracked(c) =>
            \A i \in 1..Len(models[c]) :
                Finite(models[c][i]) =>
                    storage[QuotasKey][models[c][i].label] = models[c][i].rawQuota

\* A drop of the maximum threshold was not counted and is the new baseline.
C23_Witness ==
    \E c \in Cycles :
        /\ Tracked(c)
        /\ Len(models[c]) = 1
        /\ Finite(models[c][1])
        /\ before[c][QuotasKey][models[c][1].label] - models[c][1].rawQuota
              = USAGE_DETECTION_MAX_THRESHOLD
        /\ totalDelta[c] = 0
        /\ storage[QuotasKey][models[c][1].label] = models[c][1].rawQuota

\* ------------------------------------------------------------------ C24
\* C24: a cycle whose accepted drops sum to more than 0 appends exactly one
\* entry, stamped with the time the call read and holding that sum, to the
\* entries it keeps; a cycle without accepted drops appends nothing; the
\* history grows by at most one entry, and that is what is stored.
C24_OneEntryPerCycle ==
    \A c \in Cycles :
        LET old == before[c][HistoryKey]
            kept == Younger(old, trackNow[c])
            sum == ExpectedDelta(models[c], before[c][QuotasKey])
        IN /\ Tracking(c) =>
                /\ sum > 0 => history[c] = Append(kept, [ts |-> trackNow[c], delta |-> sum])
                /\ sum = 0 => history[c] = kept
                /\ Len(history[c]) <= Len(old) + 1
           /\ Tracked(c) => storage[HistoryKey] = history[c]

\* Two resources dropped in one cycle: one entry holds both drops.
C24_Witness ==
    \E c \in Cycles :
        /\ Tracked(c)
        /\ Len(models[c]) = 2
        /\ \A i \in 1..2 :
              /\ Finite(models[c][i])
              /\ before[c][QuotasKey][models[c][i].label] - models[c][i].rawQuota = 5000
        /\ Len(storage[HistoryKey]) = Len(before[c][HistoryKey]) + 1
        /\ storage[HistoryKey][Len(storage[HistoryKey])].delta = FULL

\* ------------------------------------------------------------------ C25
\* The finite models of a cycle whose fraction is below the stored baseline.
Dropping(ms, base) ==
    {i \in 1..Len(ms) :
        /\ Finite(ms[i])
        /\ base[ms[i].label] # UNDEFINED
        /\ ms[i].rawQuota < base[ms[i].label]}

RECURSIVE DropsOf(_, _, _)
DropsOf(ms, base, I) ==
    IF I = {} THEN 0
    ELSE LET i == CHOOSE j \in I : TRUE
         IN (base[ms[i].label] - ms[i].rawQuota) + DropsOf(ms, base, I \ {i})

\* C25: a finite model at or above its stored baseline, or without one,
\* adds nothing to totalDelta (the total is at most what the dropping
\* models lost, and 0 when none dropped) and its fraction is the new
\* baseline.
C25_RiseOnlyReplacesBaseline ==
    \A c \in Cycles :
        Tracking(c) =>
            LET base == before[c][QuotasKey]
                drops == Dropping(models[c], base)
            IN /\ totalDelta[c] >= 0
               /\ totalDelta[c] <= DropsOf(models[c], base, drops)
               /\ drops = {} => history[c] = Younger(before[c][HistoryKey], trackNow[c])
               /\ \A i \in 1..Len(models[c]) :
                     (Finite(models[c][i]) /\ i \notin drops) =>
                         lastQuotas[c][models[c][i].label] = models[c][i].rawQuota

\* A reset next to a drop: only the drop is counted.
C25_Witness ==
    \E c \in Cycles :
        /\ Tracking(c)
        /\ Len(models[c]) = 2
        /\ \E i, j \in 1..2 :
              /\ Finite(models[c][i])
              /\ before[c][QuotasKey][models[c][i].label] = 5000
              /\ models[c][i].rawQuota = FULL
              /\ lastQuotas[c][models[c][i].label] = FULL
              /\ Finite(models[c][j])
              /\ before[c][QuotasKey][models[c][j].label] = FULL
              /\ models[c][j].rawQuota = 5000
        /\ totalDelta[c] = 5000

\* A label without a baseline gets one and adds nothing.
C25_WitnessFirst ==
    \E c \in Cycles :
        /\ Tracking(c)
        /\ Len(models[c]) = 1
        /\ Finite(models[c][1])
        /\ before[c][QuotasKey][models[c][1].label] = UNDEFINED
        /\ lastQuotas[c][models[c][1].label] = 5000
        /\ totalDelta[c] = 0

\* ------------------------------------------------------------------ C26
FiniteLabels(ms) == {ms[i].label : i \in {j \in 1..Len(ms) : Finite(ms[j])}}

\* The accepted drops of a list of models, whatever their resetTime.
RECURSIVE AcceptedDrops(_, _)
AcceptedDrops(ms, base) ==
    IF ms = <<>> THEN 0
    ELSE LET diff == base[Head(ms).label] - Head(ms).rawQuota
         IN (IF /\ base[Head(ms).label] # UNDEFINED
                /\ diff > USAGE_DETECTION_MIN_THRESHOLD
                /\ diff < USAGE_DETECTION_MAX_THRESHOLD
             THEN diff ELSE 0) + AcceptedDrops(Tail(ms), base)

\* C26: a model without resetTime adds nothing to totalDelta, which is the
\* accepted drops of the finite models alone, and the last quota of a label
\* that no finite model carries stays as it was read, and as it was stored.
C26_UnboundedExcluded ==
    \A c \in Cycles :
        /\ Tracking(c) =>
              /\ totalDelta[c] =
                    AcceptedDrops(SelectSeq(models[c], Finite), before[c][QuotasKey])
              /\ \A l \in Labels \ FiniteLabels(models[c]) :
                    lastQuotas[c][l] = before[c][QuotasKey][l]
        /\ Tracked(c) =>
              \A l \in Labels \ FiniteLabels(models[c]) :
                    storage[QuotasKey][l] = before[c][QuotasKey][l]

\* An unbounded model below the stored baseline of its label: nothing is
\* counted and the baseline stays.
C26_Witness ==
    \E c \in Cycles :
        /\ Tracked(c)
        /\ Len(models[c]) = 1
        /\ ~Finite(models[c][1])
        /\ models[c][1].rawQuota = 5000
        /\ before[c][QuotasKey][models[c][1].label] = FULL
        /\ storage[QuotasKey][models[c][1].label] = FULL
        /\ totalDelta[c] = 0

C27_WitnessFirst ==
    /\ maxRetries = MAX_RETRY_ATTEMPTS
    /\ retryDelay = RETRY_DELAY_MS
    /\ lastEvent.kind = "response"
    /\ lastEvent.status = 503
    /\ lastEvent.attempt = 1
    /\ lastEvent.delay = 150

\* With four attempts allowed, the third one failed with an error: the
\* fourth one is set 450 ms later, not 600.
C27_WitnessThird ==
    /\ retryDelay = RETRY_DELAY_MS
    /\ lastEvent.kind = "error"
    /\ lastEvent.attempt = 3
    /\ lastEvent.delay = 450

\* ------------------------------------------------------------------ C28
\* C28: getConnection throws its 'no ports' error only after the locator
\* returned a handle and the scanner returned, and without any probe; a
\* call whose scan returned and that threw before any probe threw the
\* scanner's error or 'no ports'; and a probe is only ever issued after
\* one listing and one scan of the call returned a handle and a non-empty
\* port list.
C28_NoPortsFailsFast ==
    \A c \in Cycles :
        /\ (pc[c] = "thrown" /\ error[c] = ERR_NO_PORTS) =>
              /\ discovery[c] = [listings |-> 1, scans |-> 1, probes |-> 0]
              /\ probed[c] = <<>>
              /\ csrfToken[c] # ""
              /\ ~fromCache[c]
        /\ (pc[c] = "thrown" /\ discovery[c].scans = 1 /\ discovery[c].probes = 0) =>
              error[c] \in {ERR_SCAN, ERR_NO_PORTS}
        /\ discovery[c].probes > 0 =>
              /\ discovery[c].listings = 1
              /\ discovery[c].scans = 1
              /\ csrfToken[c] # ""
              /\ Len(ports[c]) > 0

\* The locator found a handle, the scanner no port: 'no ports', no probe.
C28_Witness ==
    \E c \in Cycles :
        /\ pc[c] = "thrown"
        /\ error[c] = ERR_NO_PORTS
        /\ csrfToken[c] \in scope.tokens
        /\ discovery[c].probes = 0

\* ------------------------------------------------------------------ C29
\* A getConnection call starts in this step.
Starts(c) == pc[c] = "idle" /\ pc'[c] # "idle"

\* C29: a getConnection call returns the cached entry only when its age is
\* below CACHE_TTL_MS; at that age or above it leaves the entry alone and
\* starts with the process listing; and the cached entry only ever changes
\* when a probe of a call that listed and scanned succeeds, to a whole new
\* entry: the port just probed, the token of that call, the time of that
\* moment.
C29_ExpiryAtTtl ==
    [][/\ \A c \in Cycles :
            Starts(c) =>
                /\ fromCache'[c] =>
                      /\ cachedConnection # NoConnection
                      /\ now - cachedConnection.timestamp < CACHE_TTL_MS
                /\ (/\ cachedConnection # NoConnection
                    /\ now - cachedConnection.timestamp >= CACHE_TTL_MS) =>
                      /\ pc'[c] = "locate"
                      /\ ~fromCache'[c]
                      /\ discovery'[c] = [listings |-> 1, scans |-> 0, probes |-> 0]
                      /\ cachedConnection' = cachedConnection
       /\ cachedConnection' # cachedConnection =>
            \E c \in Cycles :
                /\ pc[c] = "probe"
                /\ pc'[c] = "query"
                /\ discovery[c].listings = 1
                /\ discovery[c].scans = 1
                /\ discovery[c].probes = Len(probed[c])
                /\ cachedConnection' = [port |-> probed[c][Len(probed[c])],
                                        csrfToken |-> csrfToken[c],
                                        timestamp |-> now]
                /\ conn'[c] = cachedConnection'
      ]_vars

\* A call found the cached entry at exactly the TTL and started over.
C29_Witness ==
    \E c \in Cycles :
        /\ pc[c] = "locate"
        /\ cachedConnection # NoConnection
        /\ now - cachedConnection.timestamp = CACHE_TTL_MS

\* A call that started over has cached a new entry stamped with the TTL.
C29_WitnessReplaced ==
    \E c \in Cycles :
        /\ pc[c] = "query"
        /\ ~fromCache[c]
        /\ conn[c] = cachedConnection
        /\ cachedConnection.timestamp = CACHE_TTL_MS
        /\ now = CACHE_TTL_MS

\* ------------------------------------------------------------------ C30
\* The lines the loop goes through, in listing order: on Windows the
\* non-blank lines of the query, elsewhere the lines that contain the
\* application identifier or the token flag.
LoopLines == {i \in 1..Len(psOut.lines) :
                 /\ ~psOut.lines[i].blank
                 /\ platform # "win32" =>
                       (psOut.lines[i].ident \/ psOut.lines[i].flag # "none")}

\* C30: when the locator returns a handle, it is the pid and the token of
\* the first line of the loop that has both a number in front and a token;
\* the lines before it were looked at and skipped, the lines after it were
\* not looked at.
C30_FirstCandidateWins ==
    located.status = "handle" =>
        \E i \in LoopLines :
            /\ psOut.lines[i].pid # NoPid
            /\ psOut.lines[i].flag = "value"
            /\ \A j \in LoopLines :
                  j < i => (psOut.lines[j].pid = NoPid \/ psOut.lines[j].flag # "value")
            /\ located.pid = psOut.lines[i].pid
            /\ located.csrfToken = SomeToken
            /\ located.examined = Cardinality({j \in LoopLines : j <= i})

\* Two lines with a pid and a token: the handle is the first one's.
C30_Witness ==
    /\ located.status = "handle"
    /\ Len(psOut.lines) = 2
    /\ psOut.lines[1].flag = "value" /\ psOut.lines[1].pid = SomePid
    /\ psOut.lines[2].flag = "value" /\ psOut.lines[2].pid = OtherPid
    /\ located.pid = SomePid
    /\ located.examined = 1

\* A line with a token and no pid is skipped for the next one.
C30_WitnessSkipped ==
    /\ located.status = "handle"
    /\ Len(psOut.lines) = 2
    /\ psOut.lines[1].flag = "value" /\ psOut.lines[1].pid = NoPid
    /\ psOut.lines[2].flag = "value" /\ psOut.lines[2].pid = OtherPid
    /\ located.pid = OtherPid
    /\ located.examined = 2

\* ------------------------------------------------------------------ C31
\* C31: every port getConnection has probed, and the port of the cached
\* connection, is a port number: an integer from MIN_PORT to MAX_PORT.
C31_PortsInRange ==
    /\ \A c \in Cycles : \A i \in 1..Len(probed[c]) : ValidatePort(probed[c][i])
    /\ cachedConnection # NoConnection => ValidatePort(cachedConnection.port)

\* ------------------------------------------------------------------ C32
\* C32: consecutiveErrors never exceeds MAX_CONSECUTIVE_ERRORS, so the
\* tooltip never reads 'Attempts: n/5' with n above 5.
C32_CounterCapped == consecutiveErrors <= MAX_CONSECUTIVE_ERRORS

\* ------------------------------------------------------------------ C33
\* The positions of a cycle before trackUsage is called.
PreTracking == {"locate", "scan", "probe", "query"}

\* A cycle throws only from a position before tracking, and no step from
\* its start to the end of refreshData's catch changes the storage.
FailsUntracked ==
    \A c \in Cycles :
        /\ (pc[c] # "thrown" /\ pc'[c] = "thrown") => (pc[c] \in PreTracking)
        /\ (pc[c] = "idle" /\ pc'[c] # "idle") => (storage' = storage)
        /\ (pc[c] \in PreTracking \cup {"thrown"}
              /\ pc'[c] \in PreTracking \cup {"thrown", "idle"}) => (storage' = storage)

\* C33: a refresh cycle that fails before tracking starts (locator, scanner
\* or validation error, failed status query, response without userStatus)
\* leaves the usage history and the last quotas as they were before it.
C33_FailureLeavesStorage == [][FailsUntracked]_vars

\* A response without userStatus while a history and a baseline are stored.
C33_Witness ==
    \E c \in Cycles :
        /\ pc[c] = "thrown"
        /\ error[c] = ERR_NO_USER_STATUS
        /\ storage[HistoryKey] # <<>>
        /\ storage[QuotasKey] # NoQuotas

\* Every port failed validation while a history is stored.
C33_WitnessPorts ==
    \E c \in Cycles :
        /\ pc[c] = "thrown"
        /\ error[c] = ERR_ALL_PORTS
        /\ storage[HistoryKey] # <<>>

\* ------------------------------------------------------------------ C34
\* The positions of a cycle inside a getConnection that found no fresh entry.
Discovering == {"locate", "scan", "probe"}

\* The errors getConnection throws.
ConnectionErrors ==
    {r.error : r \in {x \in LocateResults : ~x.ok}} \cup {ERR_SCAN, ERR_NO_PORTS, ERR_ALL_PORTS}

\* No step of a getConnection call up to its throw touches the cached
\* entry, and the entry changes only in the step of a probe that succeeded,
\* to the connection that call returns.
CacheWrittenOnSuccess ==
    /\ \A c \in Cycles :
        /\ (pc[c] = "idle" /\ pc'[c] # "idle") => (cachedConnection' = cachedConnection)
        /\ (pc[c] \in Discovering /\ pc'[c] \in Discovering \cup {"thrown"})
              => (cachedConnection' = cachedConnection)
        /\ (pc[c] \in Discovering /\ pc'[c] = "thrown") => (error'[c] \in ConnectionErrors)
        /\ (pc[c] = "thrown") => (cachedConnection' = cachedConnection)
    /\ (cachedConnection' # cachedConnection) =>
          (\E c \in Cycles : /\ pc[c] = "probe"
                             /\ pc'[c] = "query"
                             /\ cachedConnection' = conn'[c]
                             /\ cachedConnection'.port = ports[c][idx[c]])

\* C34: a getConnection call that fails (locator error, scanner error,
\* empty port list, every port failing validation) leaves cachedConnection
\* unchanged, an expired entry included; it is written only on success.
C34_FailureKeepsCache == [][CacheWrittenOnSuccess]_vars

\* Every port failed while an expired entry is cached: the entry is kept.
C34_Witness ==
    \E c \in Cycles :
        /\ pc[c] = "thrown"
        /\ error[c] = ERR_ALL_PORTS
        /\ cachedConnection # NoConnection
        /\ ~CacheFresh(cachedConnection, now)

\* The scanner found no port while an expired entry is cached.
C34_WitnessNoPorts ==
    \E c \in Cycles :
        /\ pc[c] = "thrown"
        /\ error[c] = ERR_NO_PORTS
        /\ cachedConnection # NoConnection
        /\ ~CacheFresh(cachedConnection, now)

\* ------------------------------------------------------------------ C35
\* What one trackUsage call run on its own makes of the storage st, for
\* the models ms at time t.
TrackAlone(st, ms, t) ==
    LET loop == TrackLoop(ms, st[QuotasKey], 0)
    IN [st EXCEPT ![HistoryKey] = PruneHistory(RecordDrop(st[HistoryKey], t, loop.totalDelta), t),
                  ![QuotasKey] = loop.lastQuotas]

\* The storage after cycle c and then cycle d, each run on its own.
SerialOutcome(st, c, d) ==
    TrackAlone(TrackAlone(st, models[c], trackNow[c]), models[d], trackNow[d])

\* Two cycles in flight together that both read the storage as constructed
\* and have both completed their two writes.
OverlappedFromEmpty(c, d) ==
    /\ c # d
    /\ Tracked(c) /\ Tracked(d)
    /\ before[c] = NoStorage /\ before[d] = NoStorage
    /\ \A e \in Cycles \ {c, d} : pc[e] = "idle"

\* C35: when two refresh cycles overlap, the persisted history and last
\* quotas after both finish are what one of the two serial orders of the
\* cycles would have produced.
C35_SerialOutcome ==
    \A c, d \in Cycles :
        OverlappedFromEmpty(c, d) =>
            storage \in {SerialOutcome(NoStorage, c, d), SerialOutcome(NoStorage, d, c)}

\* ------------------------------------------------------------------ C36
\* C36: tracked usage never over-counts: with cycles one at a time, the
\* deltas appended to the history on account of a finite resource sum to
\* at most the falls of its remaining fraction from one response to the
\* next.  With one resource every delta is on its account.
C36_NeverOverCounts ==
    SumDelta(storage[HistoryKey]) <= observed.decreased["A"] + observed.decreased["B"]

\* ------------------------------------------------------------------ C38
\* The most requests one call can issue: each attempt below maxRetries
\* is followed by at most two attempts with the next number.
MostRequests == 2 ^ maxRetries - 1

\* C38: every makeRequest call settles: when each attempt ends in a
\* response, an error or a timeout, the promise is resolved or rejected,
\* after a bounded number of attempts.
C38_Settles ==
    /\ (outcome = PENDING) ~> (outcome \notin {NOT_CALLED, PENDING})
    /\ [](issued <= MostRequests)

\* The call settled on its last attempt, after every allowed retry.
C38_Witness ==
    /\ outcome \notin {NOT_CALLED, PENDING}
    /\ maxRetries = MAX_RETRY_ATTEMPTS
    /\ issued >= maxRetries
    /\ lastEvent.attempt = maxRetries
    /\ lastEvent.first

\* ------------------------------------------------------------------ C37
\* Some refresh has run its try block to the end.
Succeeded == \E i \in 1..Len(log) : log[i] = "ok"

\* C37: with the target process up (stable token and port, status API
\* answering 2xx with a userStatus) and the timer firing, some refresh
\* cycle succeeds, at the latest by the cycle started once a stale cached
\* entry has passed its TTL; a success leaves consecutiveErrors at 0; and
\* the timer goes on firing whatever failed before.
C37_Recovers ==
    /\ <>Succeeded
    /\ []((now >= CACHE_TTL_MS /\ \A c \in Cycles : pc[c] = "idle") => Succeeded)
    /\ []((log # <<>> /\ log[Len(log)] = "ok") => consecutiveErrors = 0)
    /\ <>(ticks = MaxTimerTicks)

\* A success after failures on a stale cached entry and after the error
\* notification.
C37_Witness ==
    /\ Len(log) >= 2
    /\ log[Len(log)] = "ok"
    /\ log[Len(log) - 1] = "fail"
    /\ retryOffers > 0
    /\ consecutiveErrors = 0
    /\ now >= CACHE_TTL_MS
====
